---- MODULE Spec2Model ----
(***************************************************************************)
(* ette (Encrypted Terminal Text Editor): the container codec of           *)
(* crypto.cc and the editor controller of editor.cc as a state machine.    *)
(*                                                                         *)
(* Bytes are the integers 0..255.  A byte string held in a file is a       *)
(* sequence of cells: a cell is either a concrete byte or one byte of the  *)
(* output of the AES-256-CBC primitive, which is kept symbolic (it records *)
(* the key, the iv and the padded plaintext it encrypts).                  *)
(***************************************************************************)
EXTENDS Integers, Sequences, FiniteSets, TLC

VARIABLES
    host_le,    \* IsSystemLittleEndian() on the host that runs the program
    cr,         \* the codec harness: inputs and results of Encrypt / Decrypt
    E,          \* the editor's State
    pc,         \* where the editor process is: main, a password flow, the key loop
    argv,       \* the filename given on the command line
    file,       \* the file of that name on disk
    password,   \* the local `password` of the running password flow
    confirm_password,   \* the local `confirm_password` of the new-file flow
    sessions,   \* how many times the editor has been started on the file
    g           \* history: what was typed, warned, saved (not program state)

(* ------------------------------ bounds --------------------------------- *)

\* longest password entry typed in a password prompt
MaxPw == 2
\* longest plaintext handed to Encrypt in SpecCrypto
MaxPlain == 17
\* most rows, and longest row, the typed text grows the buffer to
MaxRows == 2
MaxRowLen == 1
\* the editing keys stop when dirty has counted this many mutations
MaxDirty == 3
\* what typing and deleting in one password prompt add to dirty
MaxPwDirty == 8
\* rows above the first one the cursor is followed to
MaxAbove == 0
\* columns left of the first one the cursor is followed to
MaxBefore == 1
\* runs of the editor on the same file; the last one ends once Open returned
MaxSessions == 2
\* rows, and bytes of text in all rows, typed in the editing harness
MaxEditRows == 3
MaxEditText == 2
\* bytes of text in all rows, and in one row, of a buffer that is highlighted
MaxSyntaxText == 3
\* largest idx field a row is left with
MaxIdx == 3

(* ----------------------- constants.h / editor.h ------------------------ *)

kVersionMajor == 0
kVersionMinor == 0
kVersionPatch == 1
kHeaderMagicNumber == <<69, 84, 84, 69>>
kHeaderCryptoAlgorithmSize == 1
kHeaderPlaintextSize == 8
kHeaderIvSize == 16
kHeaderVersionSize == 3
kHeaderSize ==
    Len(kHeaderMagicNumber) + kHeaderCryptoAlgorithmSize + kHeaderVersionSize
        + kHeaderPlaintextSize + kHeaderIvSize

\* block size of the cipher (plusaes kStateSize)
kStateSize == 16

(* ------------------------------ helpers -------------------------------- *)

Range(s) == {s[i] : i \in 1..Len(s)}

Max(a, b) == IF a > b THEN a ELSE b

Min(a, b) == IF a < b THEN a ELSE b

\* s with its first n elements erased (std::string::erase(0, n))
Erase(s, n) == IF n >= Len(s) THEN <<>> ELSE SubSeq(s, n + 1, Len(s))

\* n copies of x
Fill(n, x) == [i \in 1..n |-> x]

RECURSIVE BXorN(_, _, _)
BXorN(a, b, n) ==
    IF n = 0 THEN 0
    ELSE ((a + b) % 2) + 2 * BXorN(a \div 2, b \div 2, n - 1)

\* exclusive or of two bytes
BXor(a, b) == BXorN(a, b, 8)

\* all sequences over S of length at most n
RECURSIVE SeqsUpTo(_, _)
SeqsUpTo(S, n) ==
    IF n = 0 THEN {<<>>}
    ELSE LET shorter == SeqsUpTo(S, n - 1)
         IN shorter \cup {Append(s, x) : s \in {t \in shorter : Len(t) = n - 1}, x \in S}

(* ------------------------------ status.h ------------------------------- *)

\* Status<void>: the error code it holds, or "none" when default-constructed
StatusOk(status) == status = "kOk"

(* ------------------------------ cells ---------------------------------- *)

\* HashRawKey: the first 32 hex characters of SHA-256(raw_key).  SHA-256 is
\* kept symbolic: the digest is named by the bytes it hashes.
HashRawKey(raw_key) == [sha256hex |-> raw_key, len |-> 32]

NoKey == [sha256hex |-> <<>>, len |-> 0]

\* a concrete byte in a byte string
Byte(b) == [sym |-> FALSE, v |-> b, k |-> NoKey, iv |-> <<>>, pt |-> <<>>]

\* byte i of the CBC encryption of the padded plaintext pt under key and iv
CbcCell(key, iv, pt, i) == [sym |-> TRUE, v |-> i, k |-> key, iv |-> iv, pt |-> pt]

\* a string of concrete bytes
Bytes(s) == [i \in 1..Len(s) |-> Byte(s[i])]

\* the value a cell has when it is read as a char (a cipher byte is some
\* byte that is no text: 255 stands for it)
ByteVal(c) == IF c.sym THEN 255 ELSE c.v

Vals(s) == [i \in 1..Len(s) |-> ByteVal(s[i])]

(* ----------------------- the cipher primitive -------------------------- *)

get_padded_encrypted_size(n) == n + (kStateSize - (n % kStateSize))

\* PKCS#7: pad to the next multiple of 16 with bytes holding the pad length
Pkcs7Pad(pt) ==
    LET pad == kStateSize - (Len(pt) % kStateSize)
    IN pt \o Fill(pad, pad)

\* aes256_cbc_encrypt(key[32], iv[16], plaintext[n], pkcs7_pad = true)
encrypt_cbc(pt, key, iv) ==
    [i \in 1..get_padded_encrypted_size(Len(pt)) |-> CbcCell(key, iv, Pkcs7Pad(pt), i)]

\* data is, byte for byte, one output of encrypt_cbc
IsCbcOutput(data) ==
    /\ Len(data) > 0
    /\ data[1].sym
    /\ Len(data[1].pt) = Len(data)
    /\ \A i \in 1..Len(data) :
           data[i] = CbcCell(data[1].k, data[1].iv, data[1].pt, i)

\* aes256_cbc_decrypt with PKCS#7 validation into a buffer of decrypted_size
\* zero bytes.  A block decrypted under another key than the one that made
\* it never shows valid padding; under the right key and another iv the
\* first block comes out xor-ed with both ivs.
decrypt_cbc(data, data_size, key, iv, decrypted_size) ==
    IF data_size = 0 \/ data_size % kStateSize # 0 THEN
        [err |-> "kErrorInvalidDataSize", out |-> <<>>]
    ELSE IF key.len \notin {16, 24, 32} THEN
        [err |-> "kErrorInvalidKeySize", out |-> <<>>]
    ELSE IF decrypted_size < data_size - kStateSize THEN
        [err |-> "kErrorInvalidBufferSize", out |-> <<>>]
    ELSE IF ~IsCbcOutput(data) \/ data[1].k # key THEN
        [err |-> "kErrorInvalidKey", out |-> <<>>]
    ELSE
        LET iv0 == data[1].iv
            padded == [i \in 1..data_size |->
                          IF i <= kStateSize /\ iv0[i] # iv[i]
                          THEN BXor(BXor(data[1].pt[i], iv0[i]), iv[i])
                          ELSE data[1].pt[i]]
            pad == padded[data_size]
            bc == (data_size \div kStateSize) - 1
            cs == kStateSize - pad
        IN IF pad > kStateSize
              \/ \E j \in 1..pad : padded[data_size + 1 - j] # pad THEN
               [err |-> "kErrorInvalidKey", out |-> <<>>]
           ELSE IF decrypted_size >= bc * kStateSize + cs THEN
               [err |-> "kErrorOk",
                out |-> [i \in 1..decrypted_size |->
                            IF i <= bc * kStateSize + cs THEN padded[i] ELSE 0]]
           ELSE
               [err |-> "kErrorInvalidBufferSize", out |-> <<>>]

(* ------------------------------ crypto.cc ------------------------------ *)

IsSystemLittleEndian == host_le

\* sizes are uint64_t; values of 2^24 and more are all kept as Huge
Huge == 256 * 256 * 256

RECURSIVE ShiftRightBytes(_, _)
ShiftRightBytes(n, k) == IF k = 0 THEN n ELSE ShiftRightBytes(n \div 256, k - 1)

\* the value with most significant byte first, read from eight bytes
RECURSIVE U64FromBytes(_, _)
U64FromBytes(b, n) ==
    IF n = 0 THEN 0
    ELSE LET hi == U64FromBytes(b, n - 1)
         IN IF hi >= Huge \div 256 THEN Huge ELSE hi * 256 + b[n]

Reverse(s) == [i \in 1..Len(s) |-> s[Len(s) + 1 - i]]

\* a decoder that reads the size most significant byte first on every host
GetPlaintextSizeBigEndian(ciphertext) ==
    IF Len(ciphertext) < 8 THEN 0
    ELSE U64FromBytes(Vals(SubSeq(ciphertext, 1, 8)), 8)

GetPlaintextSizeFromCiphertext(ciphertext) ==
    IF Len(ciphertext) < 8 THEN 0
    ELSE LET cstr == Vals(SubSeq(ciphertext, 1, 8))
         IN IF IsSystemLittleEndian
            THEN U64FromBytes(cstr, 8)
            ELSE U64FromBytes(Reverse(cstr), 8)

CreateEmptyCryptoState ==
    [raw_key |-> <<>>, hashed_key |-> NoKey, plaintext |-> <<>>,
     ciphertext |-> <<>>, iv |-> <<>>, ciphertext_size |-> 0,
     plaintext_size |-> 0, algorithm |-> "kDefaultNone", status |-> "kOk"]

CreateCryptoStateWithStatus(status_code) ==
    [CreateEmptyCryptoState EXCEPT !.status = status_code]

\* CryptoState(): no status is held, so ok() is false; the sizes and the
\* algorithm are not initialized and no caller reads them
DefaultCryptoState == [CreateEmptyCryptoState EXCEPT !.status = "none"]

\* a header that is written least significant byte first on every host
ConstructPlaintextSizeHeaderLowFirst(plaintext_size) ==
    [i \in 1..8 |-> ShiftRightBytes(plaintext_size, i - 1) % 256]

ConstructPlaintextSizeHeaderForCiphertext(plaintext_size) ==
    IF IsSystemLittleEndian
    THEN [i \in 1..8 |-> ShiftRightBytes(plaintext_size, 8 - i) % 256]
    ELSE [i \in 1..8 |-> ShiftRightBytes(plaintext_size, i - 1) % 256]

\* a setup that looks at the key before it looks at the size
SetupCryptoStateKeyFirst(ciphertext, raw_key, algorithm) ==
    IF raw_key = <<>> THEN CreateCryptoStateWithStatus("kInvalidKeySize")
    ELSE CreateCryptoStateWithStatus("kInvalidDataSize")

SetupCryptoStateFromCiphertextAES256CBC(ciphertext, raw_key, algorithm) ==
    IF Len(ciphertext) < kHeaderSize THEN
        CreateCryptoStateWithStatus("kInvalidDataSize")
    ELSE IF raw_key = <<>> THEN
        CreateCryptoStateWithStatus("kInvalidKeySize")
    ELSE
        LET c1 == Erase(ciphertext, Len(kHeaderMagicNumber)
                                     + kHeaderCryptoAlgorithmSize + kHeaderVersionSize)
            plaintext_size == GetPlaintextSizeFromCiphertext(c1)
            c2 == Erase(c1, kHeaderPlaintextSize)
            iv == [i \in 1..kHeaderIvSize |-> ByteVal(c2[i])]
            c3 == Erase(c2, kHeaderIvSize)
        IN [raw_key |-> raw_key, hashed_key |-> HashRawKey(raw_key),
            plaintext |-> <<>>, ciphertext |-> c3, iv |-> iv,
            ciphertext_size |-> Len(c3), plaintext_size |-> plaintext_size,
            algorithm |-> algorithm, status |-> "kOk"]

\* unsigned char iv[kHeaderIvSize]; memcpy; iv[kHeaderIvSize - 1] = 0
NullTerminatedIv(raw_iv) ==
    [i \in 1..kHeaderIvSize |-> IF i = kHeaderIvSize THEN 0 ELSE raw_iv[i]]

\* std::to_string of a small number: its decimal digits as chars
RECURSIVE to_string(_)
to_string(n) ==
    IF n < 10 THEN <<48 + n>> ELSE Append(to_string(n \div 10), 48 + (n % 10))

\* an EncryptAES256CBC that hashes and uses whatever key it is given
EncryptAES256CBCAnyKey(plaintext, raw_key, raw_iv) ==
    LET key == HashRawKey(raw_key)
        iv == NullTerminatedIv(raw_iv)
        ciphertext_size == get_padded_encrypted_size(Len(plaintext))
    IN [raw_key |-> raw_key, hashed_key |-> key, plaintext |-> plaintext,
        ciphertext |-> Bytes(kHeaderMagicNumber \o <<49>>
                             \o to_string(kVersionMajor) \o to_string(kVersionMinor)
                             \o to_string(kVersionPatch)
                             \o ConstructPlaintextSizeHeaderForCiphertext(Len(plaintext))
                             \o iv)
                       \o SubSeq(encrypt_cbc(plaintext, key, iv), 1, ciphertext_size),
        iv |-> raw_iv, ciphertext_size |-> ciphertext_size,
        plaintext_size |-> Len(plaintext), algorithm |-> "kAES256CBC",
        status |-> "kOk"]

EncryptAES256CBC(plaintext, raw_key, raw_iv) ==
    IF raw_key = <<>> THEN CreateCryptoStateWithStatus("kInvalidKeySize")
    ELSE
        LET plaintext_size == Len(plaintext)
            key == HashRawKey(raw_key)
            iv == NullTerminatedIv(raw_iv)
            ciphertext_size == get_padded_encrypted_size(plaintext_size)
            ciphertext == encrypt_cbc(plaintext, key, iv)
            ciphertext_str ==
                Bytes(kHeaderMagicNumber \o <<49>>
                      \o to_string(kVersionMajor) \o to_string(kVersionMinor)
                      \o to_string(kVersionPatch)
                      \o ConstructPlaintextSizeHeaderForCiphertext(plaintext_size)
                      \o iv)
                \o SubSeq(ciphertext, 1, ciphertext_size)
        IN [raw_key |-> raw_key, hashed_key |-> key, plaintext |-> plaintext,
            ciphertext |-> ciphertext_str, iv |-> raw_iv,
            ciphertext_size |-> ciphertext_size,
            plaintext_size |-> plaintext_size, algorithm |-> "kAES256CBC",
            status |-> "kOk"]

Encrypt(plaintext, key, iv, algorithm) ==
    IF algorithm = "kAES256CBC" THEN EncryptAES256CBC(plaintext, key, iv)
    ELSE DefaultCryptoState

\* a switch that has no case for the errors of the cipher
DecryptErrorUnknown(err) == "kUnknownError"

\* the switch on the error plusaes::decrypt_cbc reports
DecryptErrorStatus(err) ==
    CASE err = "kErrorInvalidKey" -> "kInvalidKey"
      [] err = "kErrorInvalidKeySize" -> "kInvalidKeySize"
      [] err = "kErrorInvalidIvSize" -> "kInvalidIvSize"
      [] OTHER -> "kUnknownError"

DecryptAES256CBC(ciphertext, raw_key, algorithm) ==
    LET state == SetupCryptoStateFromCiphertextAES256CBC(ciphertext, raw_key, algorithm)
    IN IF ~StatusOk(state.status)
          /\ state.status \in {"kInvalidDataSize", "kInvalidKeySize"} THEN state
       ELSE
        LET iv == NullTerminatedIv(state.iv)
            plaintext_size == state.plaintext_size
        IN IF plaintext_size = 0 THEN
               [state EXCEPT !.plaintext = <<>>, !.algorithm = "kAES256CBC",
                             !.status = "kOk"]
           ELSE IF plaintext_size >= Huge THEN
               \* std::vector<unsigned char> decrypted(plaintext_size) throws
               CreateCryptoStateWithStatus("bad_alloc")
           ELSE
            LET r == decrypt_cbc(state.ciphertext, state.ciphertext_size,
                                 state.hashed_key, iv, plaintext_size)
            IN IF r.err # "kErrorOk" THEN
                   CreateCryptoStateWithStatus(DecryptErrorStatus(r.err))
               ELSE
                   [state EXCEPT !.plaintext = r.out,
                                 !.algorithm = "kAES256CBC", !.status = "kOk"]

Decrypt(ciphertext, raw_key, algorithm) ==
    IF algorithm = "kAES256CBC" THEN DecryptAES256CBC(ciphertext, raw_key, algorithm)
    ELSE DefaultCryptoState

\* a file on disk: whether it exists, and its bytes
NoFile == [exists |-> FALSE, data |-> <<>>]

FileOf(data) == [exists |-> TRUE, data |-> data]

\* the file's contents, or nullopt (~has) when it cannot be opened
ReadFileToString(f) == [has |-> f.exists, content |-> f.data]

\* a check that takes every status but InvalidKey for a correct key
IsKeyCorrectUnlessInvalidKey(key, f, algorithm) ==
    LET result == ReadFileToString(f)
    IN IF ~result.has THEN FALSE
       ELSE Decrypt(result.content, key, algorithm).status # "kInvalidKey"

IsKeyCorrect(key, f, algorithm) ==
    LET result == ReadFileToString(f)
    IN IF ~result.has THEN FALSE
       ELSE StatusOk(Decrypt(result.content, key, algorithm).status)


(* ------------------------------ editor.h ------------------------------- *)

KEY_NULL == 0
CTRL_C == 3
CTRL_F == 6
CTRL_H == 8
TAB == 9
CTRL_L == 12
ENTER == 13
CTRL_Q == 17
CTRL_S == 19
ESC == 27
BACKSPACE == 127
ARROW_LEFT == 1000
ARROW_RIGHT == 1001
ARROW_UP == 1002
ARROW_DOWN == 1003
DEL_KEY == 1004
HOME_KEY == 1005
END_KEY == 1006
PAGE_UP == 1007
PAGE_DOWN == 1008

HL_NORMAL == 0
HL_NONPRINT == 1
HL_COMMENT == 2
HL_MLCOMMENT == 3
HL_STRING == 6
HL_NUMBER == 7
HL_MATCH == 8
QUERY_LEN == 256

\* '\n', ' ' and '*'
LF == 10
SPACE == 32
STAR == 42

\* (char)c: the byte an int key code is stored as
ToChar(c) == c % 256

(* ------------------------- editor.cc: the rows ------------------------- *)

numrows(state) == Len(state.row)

\* row number i of the file, zero-based as in the code
RowAt(state, i) == state.row[i + 1]

\* the render loop of UpdateRow: a TAB becomes a space, then spaces while
\* (idx + 1) % 8 != 0; any other byte is copied
RECURSIVE RenderFrom(_, _, _)
RenderFrom(chars, j, render) ==
    IF j > Len(chars) THEN render
    ELSE IF chars[j] = TAB THEN
        LET idx == Len(render) + 1
        IN RenderFrom(chars, j + 1, render \o Fill(1 + (7 - (idx % 8)), SPACE))
    ELSE RenderFrom(chars, j + 1, Append(render, chars[j]))

\* an UpdateSyntax that leaves hl as long as it was
UpdateSyntaxKeepsHl(state, at) == state

isspace(c) == c \in {SPACE, 9, 10, 11, 12, 13}
isprint(c) == 32 <= c /\ c <= 126
isdigit(c) == 48 <= c /\ c <= 57

\* c is 0, a space or one of ,.()+-/*=~%[];
IsSeparator(c) ==
    c = 0 \/ isspace(c) \/ c \in {44, 46, 40, 41, 43, 45, 47, 42, 61, 126, 37, 91, 93, 59}

RowHasOpenComment(row) ==
    IF /\ row.hl # <<>> /\ row.rsize # 0
       /\ row.hl[row.rsize] = HL_MLCOMMENT
       /\ (row.rsize < 2 \/ row.render[row.rsize - 1] # 42 \/ row.render[row.rsize] # 47)
    THEN 1 ELSE 0

\* p[j] of the rendered row, a string that ends with a 0
CharAt(render, j) == IF 0 <= j /\ j < Len(render) THEN render[j + 1] ELSE 0

\* hl[j] = v
SetHl(hl, j, v) == IF 0 <= j /\ j < Len(hl) THEN [hl EXCEPT ![j + 1] = v] ELSE hl

\* memset(hl + i, v, n)
MemsetHl(hl, i, n, v) ==
    [j \in 1..Len(hl) |-> IF i < j /\ j <= i + n THEN v ELSE hl[j]]

\* the first offset from i on that holds no space
RECURSIVE SkipSpace(_, _)
SkipSpace(render, i) ==
    IF CharAt(render, i) # 0 /\ isspace(CharAt(render, i))
    THEN SkipSpace(render, i + 1) ELSE i

\* the variables of the loop of UpdateSyntax: the offset i, prev_sep,
\* in_string, in_comment, hl, and ended: "no" in the loop, "end" at the 0
\* that ends the row, "return" at the return of a "//" comment
HlVars(i, prev_sep, in_string, in_comment, hl, ended) ==
    [i |-> i, prev_sep |-> prev_sep, in_string |-> in_string,
     in_comment |-> in_comment, hl |-> hl, ended |-> ended]

\* hl[i] = hl[i + 1] = t
SetHl2(hl, i, t) == SetHl(SetHl(hl, i, t), i + 1, t)

\* one turn of the loop of UpdateSyntax for the C syntax ("//", "/*", "*/")
\* at the bytes c0 = *p and c1 = *(p + 1). No keyword is spelled with the
\* bytes of the rows that are highlighted, so the keyword search finds none.
HlStepAt(row, v, c0, c1) ==
    IF c0 = 0 THEN [v EXCEPT !.ended = "end"]
    ELSE IF v.prev_sep /\ c0 = 47 /\ c1 = 47 THEN
        [v EXCEPT !.hl = MemsetHl(v.hl, v.i, row.size - v.i, HL_COMMENT),
                  !.ended = "return"]
    ELSE IF v.in_comment THEN
        IF c0 = 42 /\ c1 = 47
        THEN HlVars(v.i + 2, TRUE, v.in_string, FALSE, SetHl2(v.hl, v.i, HL_MLCOMMENT), "no")
        ELSE HlVars(v.i + 1, FALSE, v.in_string, TRUE, SetHl(v.hl, v.i, HL_MLCOMMENT), "no")
    ELSE IF c0 = 47 /\ c1 = 42 THEN
        HlVars(v.i + 2, FALSE, v.in_string, TRUE, SetHl2(v.hl, v.i, HL_MLCOMMENT), "no")
    ELSE IF v.in_string # 0 THEN
        IF c0 = 92
        THEN HlVars(v.i + 2, FALSE, v.in_string, FALSE, SetHl2(v.hl, v.i, HL_STRING), "no")
        ELSE HlVars(v.i + 1, v.prev_sep, IF c0 = v.in_string THEN 0 ELSE v.in_string,
                    FALSE, SetHl(v.hl, v.i, HL_STRING), "no")
    ELSE IF c0 \in {34, 39} THEN
        HlVars(v.i + 1, FALSE, c0, FALSE, SetHl(v.hl, v.i, HL_STRING), "no")
    ELSE IF ~isprint(c0) THEN
        HlVars(v.i + 1, FALSE, 0, FALSE, SetHl(v.hl, v.i, HL_NONPRINT), "no")
    ELSE IF \/ isdigit(c0) /\ (v.prev_sep \/ (v.i > 0 /\ v.hl[v.i] = HL_NUMBER))
            \/ c0 = 46 /\ v.i > 0 /\ v.hl[v.i] = HL_NUMBER THEN
        HlVars(v.i + 1, FALSE, 0, FALSE, SetHl(v.hl, v.i, HL_NUMBER), "no")
    ELSE HlVars(v.i + 1, IsSeparator(c0), 0, FALSE, v.hl, "no")

HlStep(row, v) == HlStepAt(row, v, CharAt(row.render, v.i), CharAt(row.render, v.i + 1))

\* while (*p)
RECURSIVE HlScan(_, _)
HlScan(row, v) == IF v.ended # "no" THEN v ELSE HlScan(row, HlStep(row, v))

\* the previous line has an open comment: the row before is found by
\* row->idx, and an idx that leads out of the array is taken as no row
StartsInComment(state, row) ==
    /\ row.idx > 0
    /\ row.idx - 1 < Len(state.row)
    /\ RowHasOpenComment(RowAt(state, row.idx - 1)) # 0

RECURSIVE UpdateSyntaxWith(_, _, _)

\* the end of UpdateSyntax on the row at index at, which was `row` before
\* its hl was written and has the open-comment state oc now
UpdateSyntaxEnd(state, at, n, row, oc) ==
    [(IF row.hl_oc # oc /\ row.idx + 1 < n /\ row.idx + 1 < Len(state.row)
      THEN UpdateSyntaxWith(state, row.idx + 1, n)
      ELSE state) EXCEPT !.row[at + 1].hl_oc = oc]

\* UpdateSyntax from the loop on; scan is what the loop ends with
UpdateSyntaxLoop(state, at, n, row, scan) ==
    IF scan.ended = "return" THEN [state EXCEPT !.row[at + 1].hl = scan.hl]
    ELSE UpdateSyntaxEnd([state EXCEPT !.row[at + 1].hl = scan.hl], at, n, row,
                         RowHasOpenComment([row EXCEPT !.hl = scan.hl]))

\* UpdateSyntax on `row`, the row at index at, while state->numrows is n
UpdateSyntaxRow(state, at, n, row) ==
    IF state.syntax = "NULL"
    THEN [state EXCEPT !.row[at + 1].hl = Fill(row.rsize, HL_NORMAL)]
    ELSE UpdateSyntaxLoop(state, at, n, row,
            HlScan(row, HlVars(SkipSpace(row.render, 0), TRUE, 0,
                               StartsInComment(state, row),
                               Fill(row.rsize, HL_NORMAL), "no")))

UpdateSyntaxWith(state, at, n) == UpdateSyntaxRow(state, at, n, RowAt(state, at))

UpdateSyntax(state, at) == UpdateSyntaxWith(state, at, numrows(state))

\* UpdateRow on the row at index at, reading `buf`, the first row->size
\* bytes of row->chars (a row of more than UINT32_MAX bytes, on which the
\* code exits, is out of the model's bounds)
UpdateRowFrom(state, at, buf) ==
    LET render == RenderFrom(buf, 1, <<>>)
    IN UpdateSyntax([state EXCEPT !.row[at + 1].render = render,
                                  !.row[at + 1].rsize = Len(render)], at)

UpdateRow(state, at) == UpdateRowFrom(state, at, RowAt(state, at).chars)

\* the UpdateRow of InsertRow: state->numrows is still n, one less than the
\* rows of the array
UpdateRowNew(state, at, n) ==
    LET render == RenderFrom(RowAt(state, at).chars, 1, <<>>)
    IN UpdateSyntaxWith([state EXCEPT !.row[at + 1].render = render,
                                      !.row[at + 1].rsize = Len(render)], at, n)

InsertRow(state, at, s) ==
    IF at > numrows(state) THEN state
    ELSE
        LET rows == state.row
            new == [idx |-> at, size |-> Len(s), chars |-> s, rsize |-> 0,
                    render |-> <<>>, hl |-> <<>>, hl_oc |-> 0]
            shifted == [j \in 1..(Len(rows) + 1) |->
                           IF j <= at THEN rows[j]
                           ELSE IF j = at + 1 THEN new
                           ELSE [rows[j - 1] EXCEPT !.idx = @ + 1]]
        IN [UpdateRowNew([state EXCEPT !.row = shifted], at, Len(rows))
               EXCEPT !.dirty = @ + 1]

DeleteRow(state, at) ==
    IF at >= numrows(state) THEN state
    ELSE
        LET rows == state.row
        IN [state EXCEPT
               !.row = [j \in 1..(Len(rows) - 1) |->
                           IF j <= at THEN rows[j]
                           ELSE [rows[j + 1] EXCEPT !.idx = @ + 1]],
               !.dirty = @ + 1]

\* every row's chars followed by '\n'
RECURSIVE RowsToStringFrom(_, _)
RowsToStringFrom(rows, j) ==
    IF j > Len(rows) THEN <<>>
    ELSE rows[j].chars \o <<LF>> \o RowsToStringFrom(rows, j + 1)

\* a serializer that puts '\n' between the rows and none after the last
RowsToStringJoined(state) ==
    LET all == RowsToStringFrom(state.row, 1)
    IN IF all = <<>> THEN all ELSE SubSeq(all, 1, Len(all) - 1)

RowsToString(state) == RowsToStringFrom(state.row, 1)

\* a RowInsertChar that puts the character at the end of the row
RowInsertCharAppend(state, r, at, c) ==
    LET row == RowAt(state, r)
        chars == Append(row.chars, ToChar(c))
        s1 == [state EXCEPT !.row[r + 1].chars = chars,
                            !.row[r + 1].size = Len(chars)]
    IN [UpdateRow(s1, r) EXCEPT !.dirty = @ + 1]

RowInsertChar(state, r, at, c) ==
    LET row == RowAt(state, r)
        chars == IF at > row.size
                 THEN row.chars \o Fill(at - row.size, SPACE) \o <<ToChar(c)>>
                 ELSE SubSeq(row.chars, 1, at) \o <<ToChar(c)>>
                          \o SubSeq(row.chars, at + 1, row.size)
        s1 == [state EXCEPT !.row[r + 1].chars = chars,
                            !.row[r + 1].size = Len(chars)]
    IN [UpdateRow(s1, r) EXCEPT !.dirty = @ + 1]

RowAppendString(state, r, s) ==
    LET row == RowAt(state, r)
        s1 == [state EXCEPT !.row[r + 1].chars = row.chars \o s,
                            !.row[r + 1].size = row.size + Len(s)]
    IN [UpdateRow(s1, r) EXCEPT !.dirty = @ + 1]

\* memmove first, then UpdateRow while row->size still counts the byte
\* that was removed (the terminating 0 is rendered), then size--
RowDeleteChar(state, r, at) ==
    LET row == RowAt(state, r)
    IN IF row.size <= at THEN state
       ELSE
        LET moved == SubSeq(row.chars, 1, at) \o SubSeq(row.chars, at + 2, row.size)
            s1 == UpdateRowFrom(state, r, moved \o <<0>>)
        IN [s1 EXCEPT !.row[r + 1].chars = moved,
                      !.row[r + 1].size = row.size - 1,
                      !.dirty = @ + 1]

\* a typing-state test that takes the state a flow returns in for a typing state
IsTypingOrChecked(state) ==
    \/ state.existing_file_password_state \in {"kTyping", "kEnterPasswordNeedsCheck"}
    \/ state.new_file_password_state \in
          {"kTypingEnterPassword", "kTypingConfirmPassword", "kConfirmPasswordNeedsCheck"}

\* a password machine is in a state where keys are typed into the entry
IsTyping(state) ==
    \/ state.existing_file_password_state = "kTyping"
    \/ state.new_file_password_state = "kTypingEnterPassword"
    \/ state.new_file_password_state = "kTypingConfirmPassword"

\* while (state->numrows <= filerow) InsertRow(state, state->numrows, "", 0)
RECURSIVE AddRowsUpTo(_, _)
AddRowsUpTo(state, filerow) ==
    IF numrows(state) <= filerow
    THEN AddRowsUpTo(InsertRow(state, numrows(state), <<>>), filerow)
    ELSE state

\* std::string::pop_back (on an empty string it is undefined; the guard of
\* ProcessKeyPressPasswordMode keeps the editor from calling it then)
PopBack(s) == IF s = <<>> THEN <<>> ELSE SubSeq(s, 1, Len(s) - 1)

\* InsertChar once the row exists: the password entry takes the key and the
\* row a '*' while a password is typed
InsertCharInRow(state, filerow, filecol, c) ==
    IF IsTyping(state)
    THEN RowInsertChar([state EXCEPT !.entry_password = Append(@, ToChar(c))],
                       filerow, filecol, STAR)
    ELSE RowInsertChar(state, filerow, filecol, c)

\* the end of InsertChar: the cursor moves right and dirty++
InsertCharAdvance(state) ==
    IF state.cx = state.screencols - 1
    THEN [state EXCEPT !.coloff = @ + 1, !.dirty = @ + 1]
    ELSE [state EXCEPT !.cx = @ + 1, !.dirty = @ + 1]

InsertChar(state, c) ==
    InsertCharAdvance(
        InsertCharInRow(AddRowsUpTo(state, state.rowoff + state.cy),
                        state.rowoff + state.cy, state.coloff + state.cx, c))

\* the loop of InsertString from index i on (the test of next makes the
\* State of one iteration a value before the following one starts)
RECURSIVE InsertStringFrom(_, _, _)
InsertStringFrom(state, s, i) ==
    IF i > Len(s) THEN state
    ELSE LET next == InsertChar(state, s[i])
         IN IF next.dirty # state.dirty
            THEN InsertStringFrom(next, s, i + 1)
            ELSE next

InsertString(state, s) == InsertStringFrom(state, s, 1)

\* a fixcursor that leaves the column where it was
FixCursorKeepsColumn(state) ==
    IF state.cy = state.screenrows - 1
    THEN [state EXCEPT !.rowoff = @ + 1]
    ELSE [state EXCEPT !.cy = @ + 1]

\* the fixcursor label of InsertNewLine
FixCursor(state) ==
    LET s1 == IF state.cy = state.screenrows - 1
              THEN [state EXCEPT !.rowoff = @ + 1]
              ELSE [state EXCEPT !.cy = @ + 1]
    IN [s1 EXCEPT !.cx = 0, !.coloff = 0]

\* the InsertRow call InsertNewLine starts with (filerow <= numrows)
InsertNewLineRow(state) ==
    LET filerow == state.rowoff + state.cy
        col == state.coloff + state.cx
    IN IF filerow >= numrows(state) THEN [at |-> filerow, s |-> <<>>]
       ELSE
        LET row == RowAt(state, filerow)
            filecol == IF col >= row.size THEN row.size ELSE col
        IN IF filecol = 0 THEN [at |-> filerow, s |-> <<>>]
           ELSE [at |-> filerow + 1, s |-> SubSeq(row.chars, filecol + 1, row.size)]

InsertNewLine(state) ==
    LET filerow == state.rowoff + state.cy
        col == state.coloff + state.cx
    IN IF filerow >= numrows(state) THEN
           IF filerow = numrows(state)
           THEN FixCursor(InsertRow(state, filerow, <<>>))
           ELSE state
       ELSE
        LET row == RowAt(state, filerow)
            filecol == IF col >= row.size THEN row.size ELSE col
        IN IF filecol = 0 THEN FixCursor(InsertRow(state, filerow, <<>>))
           ELSE
            LET s1 == InsertRow(state, filerow + 1,
                                SubSeq(row.chars, filecol + 1, row.size))
                s2 == [s1 EXCEPT !.row[filerow + 1].chars =
                                     SubSeq(row.chars, 1, filecol),
                                 !.row[filerow + 1].size = filecol]
            IN FixCursor(UpdateRow(s2, filerow))

\* DeleteChar at column 0 after the row was joined to the previous one: the
\* cursor goes to the end of what the previous row held
DeleteCharJoined(state, prevsize) ==
    LET shift == (state.screencols - prevsize) + 1
    IN [state EXCEPT
           !.rowoff = IF state.cy = 0 THEN @ - 1 ELSE @,
           !.cy = IF state.cy = 0 THEN @ ELSE @ - 1,
           !.cx = IF prevsize >= state.screencols THEN prevsize - shift ELSE prevsize,
           !.coloff = IF prevsize >= state.screencols THEN @ + shift ELSE @,
           !.dirty = @ + 1]

\* DeleteChar inside a row after the character was removed: the cursor
\* moves left
DeleteCharInRow(state, filerow) ==
    [UpdateRow(IF state.cx = 0 /\ state.coloff # 0
               THEN [state EXCEPT !.coloff = @ - 1]
               ELSE [state EXCEPT !.cx = @ - 1], filerow)
        EXCEPT !.dirty = @ + 1]

DeleteChar(state) ==
    LET filerow == state.rowoff + state.cy
        filecol == state.coloff + state.cx
    IN IF filerow >= numrows(state) \/ (filecol = 0 /\ filerow = 0) THEN state
       ELSE IF filecol = 0 THEN
        DeleteCharJoined(
            DeleteRow(RowAppendString(state, filerow - 1, RowAt(state, filerow).chars),
                      filerow),
            RowAt(state, filerow - 1).size)
       ELSE
        DeleteCharInRow(
            RowDeleteChar(IF IsTyping(state)
                          THEN [state EXCEPT !.entry_password = PopBack(@)]
                          ELSE state, filerow, filecol - 1),
            filerow)

(* ----------------------- editor.cc: cursor keys ------------------------ *)

\* row[i].size as the code reads it: with no row of index i the read is out
\* of bounds and yields oob
RowSize(state, i, oob) ==
    IF 0 <= i /\ i < numrows(state) THEN RowAt(state, i).size ELSE oob

\* the switch of MoveCursor
MoveCursorKey(state, key, oob) ==
    LET filerow == state.rowoff + state.cy
        filecol == state.coloff + state.cx
        hasrow == filerow < numrows(state)
        size == RowSize(state, filerow, oob)
        down == IF state.cy = state.screenrows - 1
                THEN [state EXCEPT !.rowoff = @ + 1]
                ELSE [state EXCEPT !.cy = @ + 1]
    IN CASE key = ARROW_LEFT ->
                IF state.cx = 0 THEN
                    IF state.coloff # 0 THEN [state EXCEPT !.coloff = @ - 1]
                    ELSE IF filerow > 0 THEN
                        LET s1 == [state EXCEPT !.cy = @ - 1,
                                                !.cx = RowSize(state, filerow - 1, oob)]
                        IN IF s1.cx > s1.screencols - 1
                           THEN [s1 EXCEPT !.coloff = s1.cx - s1.screencols + 1,
                                           !.cx = s1.screencols - 1]
                           ELSE s1
                    ELSE state
                ELSE [state EXCEPT !.cx = @ - 1]
         [] key = ARROW_RIGHT ->
                IF hasrow /\ filecol < size THEN
                    IF state.cx = state.screencols - 1
                    THEN [state EXCEPT !.coloff = @ + 1]
                    ELSE [state EXCEPT !.cx = @ + 1]
                ELSE IF hasrow /\ filecol = size THEN
                    [down EXCEPT !.cx = 0, !.coloff = 0]
                ELSE state
         [] key = ARROW_UP ->
                IF state.cy = 0 THEN
                    IF state.rowoff # 0 THEN [state EXCEPT !.rowoff = @ - 1]
                    ELSE state
                ELSE [state EXCEPT !.cy = @ - 1]
         [] key = ARROW_DOWN ->
                IF filerow < numrows(state) THEN down ELSE state
         [] OTHER -> state

\* the clamp at the end of MoveCursor
FixCx(state, oob) ==
    LET filerow == state.rowoff + state.cy
        filecol == state.coloff + state.cx
        rowlen == IF filerow >= numrows(state) THEN 0 ELSE RowSize(state, filerow, oob)
    IN IF filecol > rowlen THEN
           LET s1 == [state EXCEPT !.cx = @ - (filecol - rowlen)]
           IN IF s1.cx < 0 THEN [s1 EXCEPT !.coloff = @ + s1.cx, !.cx = 0] ELSE s1
       ELSE state

\* oob: the value an out-of-bounds read of a row's size yields
MoveCursor(state, key, oob) == FixCx(MoveCursorKey(state, key, oob), oob)

\* MoveCursor reads the size of a row that does not exist: of row[filerow - 1]
\* for ARROW_LEFT at column 0, of row[filerow] when filerow is negative
ReadsRowOutOfBounds(state, key, oob) ==
    LET filerow == state.rowoff + state.cy
        moved == MoveCursorKey(state, key, oob)
    IN \/ /\ key = ARROW_LEFT
          /\ state.cx = 0 /\ state.coloff = 0
          /\ filerow > 0 /\ filerow - 1 >= numrows(state)
       \/ key = ARROW_RIGHT /\ filerow < 0
       \/ moved.rowoff + moved.cy < 0

\* the cursor is above the first row: row[filerow] is not a row of the file,
\* and InsertChar, InsertNewLine and DeleteChar write through it
WritesRowOutOfBounds(state) == state.rowoff + state.cy < 0

\* the cursor is left of the first column: row->chars[filecol] is before the
\* row's buffer, and RowInsertChar, InsertNewLine and RowDeleteChar write there
WritesBeforeRow(state) == state.coloff + state.cx < 0

RECURSIVE MoveCursorTimes(_, _, _)
MoveCursorTimes(state, key, times) ==
    IF times <= 0 THEN state
    ELSE MoveCursorTimes(MoveCursor(state, key, 0), key, times - 1)

\* the PAGE_UP / PAGE_DOWN case of ProcessKeyPressUnlocked
PageKey(state, c) ==
    LET s1 == IF c = PAGE_UP /\ state.cy # 0 THEN [state EXCEPT !.cy = 0]
              ELSE IF c = PAGE_DOWN /\ state.cy # state.screenrows - 1
              THEN [state EXCEPT !.cy = state.screenrows - 1]
              ELSE state
    IN MoveCursorTimes(s1, IF c = PAGE_UP THEN ARROW_UP ELSE ARROW_DOWN,
                       state.screenrows)

(* ------------------------ editor.cc: Open / Save ----------------------- *)

\* the lines getline() returns, each with its terminating '\n' if it has one
RECURSIVE GetLines(_, _, _)
GetLines(data, i, line) ==
    IF i > Len(data) THEN (IF line = <<>> THEN <<>> ELSE <<line>>)
    ELSE IF data[i] = LF THEN <<Append(line, LF)>> \o GetLines(data, i + 1, <<>>)
    ELSE GetLines(data, i + 1, Append(line, data[i]))

\* a loop that strips every trailing '\n' and '\r' from a line
RECURSIVE StripEolAll(_)
StripEolAll(line) ==
    IF Len(line) > 0 /\ (line[Len(line)] = LF \/ line[Len(line)] = 13)
    THEN StripEolAll(SubSeq(line, 1, Len(line) - 1))
    ELSE line

\* Open strips one trailing '\n' or '\r' from a line
StripEol(line) ==
    IF Len(line) > 0 /\ (line[Len(line)] = LF \/ line[Len(line)] = 13)
    THEN SubSeq(line, 1, Len(line) - 1)
    ELSE line

\* the lines std::getline() returns: the delimiter is removed
StdGetLines(data) ==
    LET ls == GetLines(data, 1, <<>>)
    IN [j \in 1..Len(ls) |->
           IF ls[j][Len(ls[j])] = LF THEN SubSeq(ls[j], 1, Len(ls[j]) - 1) ELSE ls[j]]

RECURSIVE InsertRows(_, _, _)
InsertRows(state, lines, j) ==
    IF j > Len(lines) THEN state
    ELSE InsertRows(InsertRow(state, numrows(state), lines[j]), lines, j + 1)

\* the result of a function that returns int and changes the State
Ret(state, ret) == [state |-> state, ret |-> ret]

OpenEncryptedFile(state, f) ==
    LET content == ReadFileToString(f)
    IN IF ~content.has THEN Ret(state, 1)
       ELSE
        LET crypto_state == Decrypt(content.content, state.password,
                                    state.crypto_algorithm)
        IN IF ~StatusOk(crypto_state.status) THEN Ret(state, 1)
           ELSE Ret([InsertRows(state, StdGetLines(crypto_state.plaintext), 1)
                        EXCEPT !.dirty = 0], 0)

\* Open of `filename` whose file is f (fopen failing with another error than
\* ENOENT exits the process: see the action MainOpen)
Open(state, filename, f) ==
    LET s1 == [state EXCEPT !.dirty = 0, !.filename = filename]
    IN IF s1.password # <<>> THEN OpenEncryptedFile(s1, f)
       ELSE IF ~f.exists THEN Ret(s1, 1)
       ELSE
        LET ls == GetLines(Vals(f.data), 1, <<>>)
            lines == [j \in 1..Len(ls) |-> StripEol(ls[j])]
        IN Ret([InsertRows(s1, lines, 1) EXCEPT !.dirty = 0], 0)

\* data cut or zero-filled to len bytes (ftruncate)
Truncate(data, len) ==
    [i \in 1..len |-> IF i <= Len(data) THEN data[i] ELSE Byte(0)]

\* Save with the iv GenerateRandomAsciiByteVector drew and the system call
\* that fails, if one does (io): the State, the return value and the file.
\* (The text SetStatusMessage leaves in the status bar is not part of the
\* model: no operation reads it back.)
Save(state, f, iv, io) ==
    LET plaintext == RowsToString(state)
        created == IF f.exists THEN f ELSE FileOf(<<>>)
    IN IF io = "open" THEN [state |-> state, ret |-> 1, file |-> f]
       ELSE
        LET encrypted_state == Encrypt(plaintext, state.password, iv,
                                       state.crypto_algorithm)
            encrypts == Len(state.password) > 0
            buffer_str == IF encrypts THEN encrypted_state.ciphertext
                          ELSE Bytes(plaintext)
            len == Len(buffer_str)
        IN IF encrypts /\ ~StatusOk(encrypted_state.status) THEN
               [state |-> state, ret |-> 1, file |-> created]
           ELSE IF io = "ftruncate" THEN
               [state |-> state, ret |-> 1, file |-> created]
           ELSE IF io = "write" THEN
               [state |-> state, ret |-> 1,
                file |-> FileOf(Truncate(created.data, len))]
           ELSE
               [state |-> [state EXCEPT !.dirty = 0], ret |-> 0,
                file |-> FileOf(buffer_str)]

(* ------------------- editor.cc: keys and password flows ---------------- *)

\* what a function that may call exit() gives back
Out(state, ret, exits) == [state |-> state, ret |-> ret, exits |-> exits]

\* a password-mode handler that lets the arrow keys move the cursor
ProcessKeyPressPasswordModeArrows(state, c) ==
    CASE c = ENTER -> Out(state, TRUE, FALSE)
      [] c = CTRL_Q -> Out(state, FALSE, TRUE)
      [] c \in {BACKSPACE, CTRL_H, DEL_KEY} ->
            IF state.cx <= Len(state.indelible_msg)
            THEN Out(state, FALSE, FALSE)
            ELSE Out(DeleteChar(state), FALSE, FALSE)
      [] c \in {ARROW_UP, ARROW_DOWN, ARROW_LEFT, ARROW_RIGHT} ->
            Out(MoveCursor(state, c, 0), FALSE, FALSE)
      [] c \in {CTRL_S, CTRL_C, CTRL_F, PAGE_UP, PAGE_DOWN, CTRL_L, ESC} ->
            Out(state, FALSE, FALSE)
      [] OTHER -> Out(InsertChar(state, c), FALSE, FALSE)

\* a password-mode handler whose guard lets the key through at the prompt's end
ProcessKeyPressPasswordModeOffByOne(state, c) ==
    CASE c = ENTER -> Out(state, TRUE, FALSE)
      [] c = CTRL_Q -> Out(state, FALSE, TRUE)
      [] c \in {BACKSPACE, CTRL_H, DEL_KEY} ->
            IF state.cx < Len(state.indelible_msg)
            THEN Out(state, FALSE, FALSE)
            ELSE Out(DeleteChar(state), FALSE, FALSE)
      [] c \in {CTRL_S, CTRL_C, CTRL_F, PAGE_UP, PAGE_DOWN, ARROW_UP, ARROW_DOWN,
                ARROW_LEFT, ARROW_RIGHT, CTRL_L, ESC} ->
            Out(state, FALSE, FALSE)
      [] OTHER -> Out(InsertChar(state, c), FALSE, FALSE)

ProcessKeyPressPasswordMode(state, c) ==
    CASE c = ENTER -> Out(state, TRUE, FALSE)
      [] c = CTRL_Q -> Out(state, FALSE, TRUE)
      [] c \in {BACKSPACE, CTRL_H, DEL_KEY} ->
            IF state.cx <= Len(state.indelible_msg)
            THEN Out(state, FALSE, FALSE)
            ELSE Out(DeleteChar(state), FALSE, FALSE)
      [] c \in {CTRL_S, CTRL_C, CTRL_F, PAGE_UP, PAGE_DOWN, ARROW_UP, ARROW_DOWN,
                ARROW_LEFT, ARROW_RIGHT, CTRL_L, ESC} ->
            Out(state, FALSE, FALSE)
      [] OTHER -> Out(InsertChar(state, c), FALSE, FALSE)

\* UpdateWindowSize with the size the terminal reports; two lines are kept
\* for the status bar
UpdateWindowSize(state, rows, cols) ==
    [state EXCEPT !.screenrows = rows - 2, !.screencols = cols]

HandleWindowChangeSignal(state, rows, cols) ==
    LET s1 == UpdateWindowSize(state, rows, cols)
        s2 == IF s1.cy > s1.screenrows THEN [s1 EXCEPT !.cy = s1.screenrows - 1] ELSE s1
    IN IF s2.cx > s2.screencols THEN [s2 EXCEPT !.cx = s2.screencols - 1] ELSE s2

(* ------------------------- editor.cc: Find mode ------------------------ *)

(* ---------------------- editor.cc: RefreshScreen ----------------------- *)

\* the steps of InsertRow: 1 the rows from `at` on are moved up and their idx
\* is incremented, 2 the fields of row[at] are set, 3 UpdateRow has rendered
\* row[at], 4 numrows is incremented; dirty++ ends it
InsertRowSteps == 4

\* the row array and numrows in memory when k steps of InsertRow(at, s)
\* are done on state (at <= numrows)
InsertRowMemory(state, at, s, k) ==
    LET rows == state.row
        n == numrows(state)
        new == [idx |-> at, size |-> Len(s), chars |-> s, rsize |-> 0,
                render |-> <<>>, hl |-> <<>>, hl_oc |-> 0]
        moved == [j \in 1..(n + 1) |->
                     IF j <= at THEN rows[j]
                     ELSE IF j = at + 1 THEN (IF at < n THEN rows[j] ELSE new)
                     ELSE [rows[j - 1] EXCEPT !.idx = @ + 1]]
    IN IF k = 0 THEN [row |-> rows, numrows |-> n]
       ELSE IF k = 1 THEN [row |-> moved, numrows |-> n]
       ELSE IF k = 2 THEN [row |-> [moved EXCEPT ![at + 1] = new], numrows |-> n]
       ELSE [row |-> InsertRow(state, at, s).row,
             numrows |-> IF k = 3 THEN n ELSE n + 1]

\* the bytes of a rendered row that are written to the screen
ScreenLine(state, r) ==
    LET len == r.rsize - state.coloff
    IN IF len > 0
       THEN SubSeq(r.render, state.coloff + 1,
                   state.coloff + (IF len > state.screencols THEN state.screencols ELSE len))
       ELSE <<>>

\* the screen column of the cursor: a TAB left of it counts to the tab stop
RECURSIVE CursorColumn(_, _, _, _)
CursorColumn(row, j, end, cx) ==
    IF j >= end THEN cx
    ELSE CursorColumn(row, j + 1, end,
                      (IF j < row.size /\ row.chars[j + 1] = TAB
                       THEN cx + (7 - (cx % 8)) ELSE cx) + 1)

\* the frame RefreshScreen writes when E->row and E->numrows are mem.row and
\* mem.numrows: the text lines, the numbers of the status line, the cursor
RefreshScreen(state, mem) ==
    [lines |-> [y \in 1..state.screenrows |->
                   LET filerow == state.rowoff + (y - 1)
                   IN IF filerow >= mem.numrows
                      THEN [kind |-> IF mem.numrows = 0 /\ y - 1 = state.screenrows \div 3
                                     THEN "welcome" ELSE "~",
                            text |-> <<>>]
                      ELSE [kind |-> "row", text |-> ScreenLine(state, mem.row[filerow + 1])]],
     status |-> [numrows |-> mem.numrows, modified |-> state.dirty # 0,
                 line |-> state.rowoff + state.cy + 1],
     cursor |-> LET filerow == state.rowoff + state.cy
                IN <<state.cy + 1,
                     IF filerow >= mem.numrows THEN 1
                     ELSE CursorColumn(mem.row[filerow + 1], state.coloff,
                                       state.cx + state.coloff, 1)>>]

\* a char array read as a C string: the bytes before the first 0
CStr(s) ==
    LET zeros == {i \in 1..Len(s) : s[i] = 0}
    IN IF zeros = {} THEN s
       ELSE SubSeq(s, 1, (CHOOSE i \in zeros : \A j \in zeros : i <= j) - 1)

\* strstr: the offset of the first occurrence of needle in hay, -1 for none
StrStr(hay, needle) ==
    LET offs == {k \in 0..(Len(hay) - Len(needle)) :
                    SubSeq(hay, k + 1, k + Len(needle)) = needle}
    IN IF offs = {} THEN 0 - 1 ELSE CHOOSE k \in offs : \A j \in offs : k <= j

\* the locals of Find when it is entered
FindInit(state) ==
    [state |-> state, query |-> <<>>, last_match |-> 0 - 1, find_next |-> 0,
     saved_hl_line |-> 0 - 1, saved_hl |-> <<>>, has_saved_hl |-> FALSE,
     saved_cx |-> state.cx, saved_cy |-> state.cy,
     saved_coloff |-> state.coloff, saved_rowoff |-> state.rowoff,
     returned |-> FALSE]

\* a FIND_RESTORE_HL that frees the copy and does not copy it back
FindForgetHl(f) == [f EXCEPT !.saved_hl = <<>>, !.has_saved_hl = FALSE]

\* FIND_RESTORE_HL
FindRestoreHl(f) ==
    IF f.has_saved_hl
    THEN [f EXCEPT !.state.row[f.saved_hl_line + 1].hl =
                        [i \in 1..Len(@) |->
                            IF i <= f.state.row[f.saved_hl_line + 1].rsize
                               /\ i <= Len(f.saved_hl)
                            THEN f.saved_hl[i] ELSE @[i]],
                   !.saved_hl = <<>>, !.has_saved_hl = FALSE]
    ELSE f

\* the for loop of the search: i rows were looked at, the last one is current
RECURSIVE FindScan(_, _, _, _, _)
FindScan(state, query, current, find_next, i) ==
    IF i >= numrows(state) THEN [match |-> FALSE, current |-> current, match_offset |-> 0]
    ELSE LET c1 == current + find_next
             c2 == IF c1 = 0 - 1 THEN numrows(state) - 1
                   ELSE IF c1 = numrows(state) THEN 0 ELSE c1
             off == StrStr(CStr(RowAt(state, c2).render), query)
         IN IF off >= 0 THEN [match |-> TRUE, current |-> c2, match_offset |-> off]
            ELSE FindScan(state, query, c2, find_next, i + 1)

\* "Search occurrence": the part of the loop body after the key was handled
FindSearch(f0) ==
    LET f == IF f0.last_match = 0 - 1 THEN [f0 EXCEPT !.find_next = 1] ELSE f0
    IN IF f.find_next = 0 THEN f
       ELSE
        LET m == FindScan(f.state, f.query, f.last_match, f.find_next, 0)
            f1 == FindRestoreHl([f EXCEPT !.find_next = 0])
        IN IF ~m.match THEN f1
           ELSE
            LET row == RowAt(f1.state, m.current)
                qlen == Len(f1.query)
                \* row->hl is there to save when the row has a render
                f2 == IF row.rsize > 0
                      THEN [f1 EXCEPT
                              !.saved_hl_line = m.current,
                              !.saved_hl = SubSeq(row.hl, 1, row.rsize),
                              !.has_saved_hl = TRUE,
                              !.state.row[m.current + 1].hl =
                                  [i \in 1..Len(@) |->
                                      IF m.match_offset < i /\ i <= m.match_offset + qlen
                                      THEN HL_MATCH ELSE @[i]]]
                      ELSE f1
                s1 == [f2.state EXCEPT !.cy = 0, !.cx = m.match_offset,
                                       !.rowoff = m.current, !.coloff = 0]
                s2 == IF s1.cx > s1.screencols
                      THEN LET diff == s1.cx - s1.screencols
                           IN [s1 EXCEPT !.cx = @ - diff, !.coloff = @ + diff]
                      ELSE s1
            IN [f2 EXCEPT !.last_match = m.current, !.state = s2]

\* isprint(c); for a key code that is no unsigned char the call is
\* undefined and yields what the event says
IsPrint(ev) == IF ev.c > 255 THEN ev.p ELSE 32 <= ev.c /\ ev.c <= 126

\* one event of the loop of Find: a key ReadKey returned, or a SIGWINCH
\* that was handled while ReadKey waited
FindEvent(f, ev) ==
    IF f.returned THEN f
    ELSE IF ev.k = "winch" THEN
        [f EXCEPT !.state = HandleWindowChangeSignal(@, ev.rows, ev.cols)]
    ELSE IF ev.c \in {DEL_KEY, CTRL_H, BACKSPACE} THEN
        FindSearch([f EXCEPT !.query = PopBack(@), !.last_match = 0 - 1])
    ELSE IF ev.c \in {ESC, ENTER} THEN
        LET f1 == IF ev.c = ESC
                  THEN [f EXCEPT !.state.cx = f.saved_cx, !.state.cy = f.saved_cy,
                                 !.state.coloff = f.saved_coloff,
                                 !.state.rowoff = f.saved_rowoff]
                  ELSE f
        IN [FindRestoreHl(f1) EXCEPT !.returned = TRUE]
    ELSE IF ev.c \in {ARROW_RIGHT, ARROW_DOWN} THEN
        FindSearch([f EXCEPT !.find_next = 1])
    ELSE IF ev.c \in {ARROW_LEFT, ARROW_UP} THEN
        FindSearch([f EXCEPT !.find_next = 0 - 1])
    ELSE IF IsPrint(ev) /\ Len(f.query) < QUERY_LEN THEN
        FindSearch([f EXCEPT !.query = Append(@, ToChar(ev.c)), !.last_match = 0 - 1])
    ELSE FindSearch(f)

\* Find run on the events that arrive, in order
RECURSIVE FindRun(_, _)
FindRun(f, events) ==
    IF events = <<>> THEN f ELSE FindRun(FindEvent(f, Head(events)), Tail(events))

Find(state, events) == FindRun(FindInit(state), events)

\* `new State()` followed by Init(state)
Init_(rows, cols) ==
    UpdateWindowSize(
        [cx |-> 0, cy |-> 0, rowoff |-> 0, coloff |-> 0,
         screenrows |-> 0, screencols |-> 0, row |-> <<>>, dirty |-> 0,
         filename |-> <<>>, syntax |-> "NULL", quit_times |-> 3, indelible_msg |-> <<>>,
         password |-> <<>>, entry_password |-> <<>>,
         crypto_algorithm |-> "kDefaultNone", unlock_state |-> "kUnlocked",
         existing_file_password_state |-> "kShowEnterPassword",
         new_file_password_state |-> "kShowEnterPassword"],
        rows, cols)

\* a filename is its sequence of parts: <<"f", ".aes256cbc">> is f.aes256cbc
aes256cbc == ".aes256cbc"

\* the filematch patterns of the C / C++ entry of HLDB
C_HL_extensions == <<".c", ".h", ".cpp", ".hpp", ".cc">>

\* SelectSyntaxHighlight: a pattern that starts with a dot selects the
\* syntax when its first occurrence is the end of the filename (the parts
\* of a filename are not looked into: no part holds a pattern within it)
SelectSyntaxHighlight(state, filename) ==
    IF \E j \in 1..Len(C_HL_extensions) :
          /\ \E i \in 1..Len(filename) : filename[i] = C_HL_extensions[j]
          /\ filename[Len(filename)] = C_HL_extensions[j]
          /\ \A i \in 1..(Len(filename) - 1) : filename[i] # C_HL_extensions[j]
    THEN [state EXCEPT !.syntax = "C"]
    ELSE state

\* filename.find(".aes256cbc") != npos
GetCryptoAlgorithmFromFilename(filename) ==
    IF \E i \in 1..Len(filename) : filename[i] = aes256cbc
    THEN "kAES256CBC" ELSE "kDefaultNone"

FileExists(f) == f.exists

ClearScreen(state) ==
    [state EXCEPT !.cx = 0, !.cy = 0, !.rowoff = 0, !.coloff = 0, !.row = <<>>,
                  !.dirty = 0, !.entry_password = <<>>]

GetPasswordFromState(state) == state.entry_password

enter_password ==
    <<69, 110, 116, 101, 114, 32, 112, 97, 115, 115, 119, 111, 114, 100, 58, 32>>
confirm_password_preamble ==
    <<67, 111, 110, 102, 105, 114, 109, 32, 112, 97, 115, 115, 119, 111, 114,
      100, 58, 32>>
retry_confirm_password ==
    <<80, 97, 115, 115, 119, 111, 114, 100, 32, 109, 105, 115, 109, 97, 116, 99,
      104, 46, 32, 67, 111, 110, 102, 105, 114, 109, 32, 112, 97, 115, 115, 119,
      111, 114, 100, 58, 32>>
retry_password ==
    <<73, 110, 99, 111, 114, 114, 101, 99, 116, 32, 112, 97, 115, 115, 119, 111,
      114, 100, 46, 32, 84, 114, 121, 32, 97, 103, 97, 105, 110, 58, 32>>

\* the cases of the password flows that show a prompt:
\* InsertString(prompt), indelible_msg = prompt
ShowPrompt(state, prompt) == [InsertString(state, prompt) EXCEPT !.indelible_msg = prompt]

\* a check that takes any confirmation
ConfirmPasswordAny(pw, confirm) == TRUE

\* the test of kConfirmPasswordNeedsCheck
ConfirmPasswordMatches(pw, confirm) == pw = confirm

\* the commit both flows make before they return
CommitPassword(state, pw) ==
    [ClearScreen([state EXCEPT !.password = pw]) EXCEPT !.indelible_msg = <<>>]

\* the Ctrl-Q case of ProcessKeyPressUnlocked: the State and whether exit(0) ran
CtrlQ(state) ==
    IF state.dirty # 0 /\ state.quit_times > 0
    THEN Out([state EXCEPT !.quit_times = state.quit_times - 1], 0, FALSE)
    ELSE Out(state, 0, TRUE)

(* ------------------------- the editor process -------------------------- *)

\* the terminal sizes (rows, columns) the editor is run in and resized to
TERMINALS == {<<3, 1>>, <<4, 18>>}

\* the filenames the editor is started on
FILENAMES == {<<"f", ".txt">>, <<"f", aes256cbc>>}

\* the bytes typed in the editing loop and in a password prompt
TextKeys == {97, LF}
PasswordKeys == {97}

\* the ivs GenerateRandomAsciiByteVector draws for Save
SaveIvs == {[i \in 1..kHeaderIvSize |-> 64 + i]}

\* the system call of Save that fails, if one does
SaveIo == {"ok", "open"}

\* the chars of the rows, row by row
RowChars(state) == [i \in 1..numrows(state) |-> state.row[i].chars]

NoSave == [has |-> FALSE, rows |-> <<>>, text |-> <<>>, pw |-> <<>>]

(* --------------- editor.cc: low level terminal handling ---------------- *)

\* the terminal of a process that has run Init: attr is what tcgetattr
\* reads ("cooked" is what the shell left), orig_termios the static of
\* that name, rawmode the field of the State, hooks the number of times
\* OnExit is registered with atexit, isatty whether stdin is a terminal
TermInit ==
    [attr |-> "cooked", orig_termios |-> "zero", rawmode |-> 0, hooks |-> 0,
     isatty |-> TRUE]

\* a DisableRawMode that forgets rawmode and leaves the terminal as it is
DisableRawModeFlagOnly(t) ==
    IF t.rawmode # 0 THEN [t EXCEPT !.rawmode = 0] ELSE t

DisableRawMode(t) ==
    IF t.rawmode # 0 THEN [t EXCEPT !.attr = t.orig_termios, !.rawmode = 0] ELSE t

OnExit(t) == DisableRawMode(t)

\* exit(): the registered hooks run, once each
RECURSIVE RunHooks(_, _)
RunHooks(t, n) == IF n = 0 THEN t ELSE RunHooks(OnExit(t), n - 1)

Exit(t) == [RunHooks(t, t.hooks) EXCEPT !.hooks = 0]

\* tcgetattr and tcsetattr succeed on a terminal
EnableRawMode(t) ==
    IF t.rawmode # 0 THEN [ret |-> 0, term |-> t]
    ELSE IF ~t.isatty THEN [ret |-> 0 - 1, term |-> t]
    ELSE [ret |-> 0,
          term |-> [t EXCEPT !.hooks = @ + 1, !.orig_termios = t.attr,
                             !.attr = "raw", !.rawmode = 1]]

\* history variables: the characters typed and not deleted in the running
\* prompt (typed), the entries ENTER completed (entry1, entry2), the
\* quit_times the warnings showed since the last successful Save or Open (qwarn),
\* whether the rows changed since the last successful Save or Open
\* (mutated), the rows of the last successful Save while the file still is
\* what it wrote (saved), how Open ended while no key was read since
\* (fresh), dirty when Ctrl-Q ended the editing loop (exit_dirty), the
\* locals of the last Find as they were before its last key (find); term
\* is the terminal of the process, which outlives its State; mut is the
\* InsertRow call in progress and how many of its steps are done, frame the
\* step at which the last frame was rendered and whether it shows neither
\* the rows before the key nor the rows after it
GhostInit ==
    [typed |-> <<>>, entry1 |-> <<>>, entry2 |-> <<>>, qwarn |-> <<>>,
     mutated |-> FALSE, saved |-> NoSave, fresh |-> "no", exit_dirty |-> 0,
     find |-> [exit |-> KEY_NULL, query |-> <<>>, last_match |-> 0 - 1],
     term |-> TermInit,
     mut |-> [k |-> 0, at |-> 0, s |-> <<>>],
     frame |-> [k |-> 0, torn |-> FALSE]]

\* the stars among the first n bytes of a row
RECURSIVE Stars(_, _)
Stars(chars, n) ==
    IF n <= 0 THEN 0
    ELSE Stars(chars, n - 1) + (IF n <= Len(chars) /\ chars[n] = STAR THEN 1 ELSE 0)

\* the typed characters still entered after key c took state to next
TypedAfter(typed, state, c, next) ==
    IF c \in PasswordKeys THEN Append(typed, ToChar(c))
    ELSE IF c \in {BACKSPACE, CTRL_H, DEL_KEY} /\ next.row # state.row THEN
        LET chars == state.row[1].chars
            at == state.coloff + state.cx
            k == Stars(chars, at)
        IN IF chars[at] = STAR /\ k <= Len(typed)
           THEN SubSeq(typed, 1, k - 1) \o SubSeq(typed, k + 1, Len(typed))
           ELSE typed
    ELSE typed

InFlow == pc \in {"new_file", "existing_file"}
Live == InFlow \/ pc \in {"open", "edit"}

\* the process is gone: nothing of its State is left but the terminal it ran in
Dead(state) == Init_(state.screenrows + 2, state.screencols)

codec == <<host_le, cr>>
disk == <<argv, file, sessions>>
locals == <<password, confirm_password>>

\* main: SelectSyntaxHighlight, EnableRawMode, and HandleEncryption up to
\* the first step of the flow it enters
HandleEncryption ==
    /\ pc = "main"
    /\ LET crypto_algorithm == GetCryptoAlgorithmFromFilename(argv)
           selected == SelectSyntaxHighlight(E, argv)
       IN IF crypto_algorithm = "kDefaultNone" THEN
              /\ pc' = "open"
              /\ E' = selected
          ELSE IF FileExists(file) THEN
              /\ pc' = "existing_file"
              /\ E' = [selected EXCEPT !.crypto_algorithm = crypto_algorithm,
                                !.existing_file_password_state = "kShowEnterPassword"]
          ELSE
              /\ pc' = "new_file"
              /\ E' = [selected EXCEPT !.crypto_algorithm = crypto_algorithm,
                                !.unlock_state = "kNewFile",
                                !.new_file_password_state = "kShowEnterPassword"]
    /\ password' = <<>>
    /\ confirm_password' = <<>>
    /\ g' = [g EXCEPT !.term = EnableRawMode(@).term]
    /\ UNCHANGED <<codec, disk>>

AtNew(st) == pc = "new_file" /\ E.new_file_password_state = st
AtExisting(st) == pc = "existing_file" /\ E.existing_file_password_state = st

NewShowEnterPassword ==
    /\ AtNew("kShowEnterPassword")
    /\ E' = [ShowPrompt(E, enter_password)
                EXCEPT !.new_file_password_state = "kTypingEnterPassword"]
    /\ g' = [g EXCEPT !.typed = <<>>]
    /\ UNCHANGED <<codec, disk, locals, pc>>

\* the keys a password prompt reads
PasswordModeKeys ==
    PasswordKeys \cup {ENTER, CTRL_Q, BACKSPACE, CTRL_H, DEL_KEY, CTRL_S,
                       ARROW_LEFT, ESC}

\* an entry grows to MaxPw characters, and typing and deleting in one prompt
\* stop when they have added MaxPwDirty to dirty
PasswordModeKey(c) ==
    /\ c \in PasswordKeys => Len(E.entry_password) < MaxPw
    /\ c \in PasswordKeys \cup {BACKSPACE, CTRL_H, DEL_KEY}
          => E.dirty < 2 * Len(E.indelible_msg) + 1 + MaxPwDirty

NewTypingEnterPassword ==
    /\ AtNew("kTypingEnterPassword")
    /\ \E c \in PasswordModeKeys :
        /\ PasswordModeKey(c)
        /\ LET out == ProcessKeyPressPasswordMode(E, c)
               typed == TypedAfter(g.typed, E, c, out.state)
           IN IF out.exits THEN
                  /\ pc' = "exited"
                  /\ E' = Dead(E)
                  /\ password' = <<>>
                  /\ g' = [GhostInit EXCEPT !.saved = g.saved,
                                            !.term = Exit(g.term)]
              ELSE IF out.ret THEN
                  /\ pc' = pc
                  /\ password' = GetPasswordFromState(out.state)
                  /\ E' = [out.state EXCEPT
                              !.new_file_password_state = "kEnterPasswordCompleted"]
                  /\ g' = [g EXCEPT !.entry1 = typed]
              ELSE
                  /\ pc' = pc
                  /\ password' = password
                  /\ E' = out.state
                  /\ g' = [g EXCEPT !.typed = typed]
    /\ UNCHANGED <<codec, disk, confirm_password>>

NewEnterPasswordCompleted ==
    /\ AtNew("kEnterPasswordCompleted")
    /\ E' = [ShowPrompt(ClearScreen(E), confirm_password_preamble)
                EXCEPT !.new_file_password_state = "kTypingConfirmPassword"]
    /\ g' = [g EXCEPT !.typed = <<>>]
    /\ UNCHANGED <<codec, disk, locals, pc>>

NewTypingConfirmPassword ==
    /\ AtNew("kTypingConfirmPassword")
    /\ \E c \in PasswordModeKeys :
        /\ PasswordModeKey(c)
        /\ LET out == ProcessKeyPressPasswordMode(E, c)
               typed == TypedAfter(g.typed, E, c, out.state)
           IN IF out.exits THEN
                  /\ pc' = "exited"
                  /\ E' = Dead(E)
                  /\ password' = <<>>
                  /\ confirm_password' = <<>>
                  /\ g' = [GhostInit EXCEPT !.saved = g.saved,
                                            !.term = Exit(g.term)]
              ELSE IF out.ret THEN
                  /\ pc' = pc
                  /\ password' = password
                  /\ confirm_password' = GetPasswordFromState(out.state)
                  /\ E' = [out.state EXCEPT
                              !.new_file_password_state = "kConfirmPasswordNeedsCheck"]
                  /\ g' = [g EXCEPT !.entry2 = typed]
              ELSE
                  /\ pc' = pc
                  /\ password' = password
                  /\ confirm_password' = confirm_password
                  /\ E' = out.state
                  /\ g' = [g EXCEPT !.typed = typed]
    /\ UNCHANGED <<codec, disk>>

NewConfirmPasswordNeedsCheck ==
    /\ AtNew("kConfirmPasswordNeedsCheck")
    /\ IF ConfirmPasswordMatches(password, confirm_password) THEN
           /\ E' = CommitPassword(E, password)
           /\ pc' = "open"
       ELSE
           /\ E' = [E EXCEPT !.new_file_password_state = "kShowRetryConfirmPassword"]
           /\ pc' = pc
    /\ UNCHANGED <<codec, disk, locals, g>>

NewShowRetryConfirmPassword ==
    /\ AtNew("kShowRetryConfirmPassword")
    /\ E' = [ShowPrompt(ClearScreen(E), retry_confirm_password)
                EXCEPT !.new_file_password_state = "kTypingConfirmPassword"]
    /\ g' = [g EXCEPT !.typed = <<>>]
    /\ UNCHANGED <<codec, disk, locals, pc>>

ExistingShowEnterPassword ==
    /\ AtExisting("kShowEnterPassword")
    /\ E' = [ShowPrompt(E, enter_password)
                EXCEPT !.existing_file_password_state = "kTyping"]
    /\ g' = [g EXCEPT !.typed = <<>>]
    /\ UNCHANGED <<codec, disk, locals, pc>>

ExistingTyping ==
    /\ AtExisting("kTyping")
    /\ \E c \in PasswordModeKeys :
        /\ PasswordModeKey(c)
        /\ LET out == ProcessKeyPressPasswordMode(E, c)
               typed == TypedAfter(g.typed, E, c, out.state)
           IN IF out.exits THEN
                  /\ pc' = "exited"
                  /\ E' = Dead(E)
                  /\ password' = <<>>
                  /\ g' = [GhostInit EXCEPT !.saved = g.saved,
                                            !.term = Exit(g.term)]
              ELSE IF out.ret THEN
                  /\ pc' = pc
                  /\ password' = GetPasswordFromState(out.state)
                  /\ E' = [out.state EXCEPT
                              !.existing_file_password_state = "kEnterPasswordNeedsCheck"]
                  /\ g' = [g EXCEPT !.entry1 = typed]
              ELSE
                  /\ pc' = pc
                  /\ password' = password
                  /\ E' = out.state
                  /\ g' = [g EXCEPT !.typed = typed]
    /\ UNCHANGED <<codec, disk, confirm_password>>

\* a check that lets every entry through
ExistingEnterPasswordUnchecked ==
    /\ AtExisting("kEnterPasswordNeedsCheck")
    /\ E' = CommitPassword(E, password)
    /\ pc' = "open"
    /\ UNCHANGED <<codec, disk, locals, g>>

ExistingEnterPasswordNeedsCheck ==
    /\ AtExisting("kEnterPasswordNeedsCheck")
    /\ IF IsKeyCorrect(password, file, E.crypto_algorithm) THEN
           /\ E' = CommitPassword(E, password)
           /\ pc' = "open"
       ELSE
           /\ E' = [E EXCEPT !.existing_file_password_state = "kShowRetryPassword"]
           /\ pc' = pc
    /\ UNCHANGED <<codec, disk, locals, g>>

ExistingShowRetryPassword ==
    /\ AtExisting("kShowRetryPassword")
    /\ E' = [ShowPrompt(ClearScreen(E), retry_password)
                EXCEPT !.existing_file_password_state = "kTyping"]
    /\ g' = [g EXCEPT !.typed = <<>>]
    /\ UNCHANGED <<codec, disk, locals, pc>>

\* main: Open(state, argv[1]) and the help message; io is "error" when the
\* file is there and cannot be read
MainOpen ==
    /\ pc = "open"
    /\ \E io \in {"ok", "error"} :
        /\ io = "error" => file.exists
        /\ IF io = "error" /\ E.password = <<>> THEN
               /\ pc' = "exited"
               /\ E' = Dead(E)
               /\ g' = [GhostInit EXCEPT !.saved = g.saved,
                                         !.term = Exit(g.term)]
           ELSE
               LET out == Open(E, argv, IF io = "error" THEN NoFile ELSE file)
               IN /\ pc' = "edit"
                  /\ E' = out.state
                  /\ g' = [g EXCEPT !.fresh = IF out.ret = 0 THEN "ok" ELSE "failed",
                                    !.mutated = FALSE, !.qwarn = <<>>]
    /\ UNCHANGED <<codec, disk, locals>>

\* the editing keys are read until the last session has opened the file
Editing == pc = "edit" /\ sessions < MaxSessions

\* the typed text fits the bounds
Fits(state) ==
    /\ numrows(state) <= (IF sessions = 0 THEN MaxEditRows ELSE MaxRows)
    /\ \A i \in 1..numrows(state) :
          /\ state.row[i].size <= (IF sessions # 0 THEN MaxRowLen
                                   ELSE IF state.syntax = "NULL" THEN MaxEditText
                                   ELSE MaxSyntaxText)
          /\ state.row[i].idx <= MaxIdx
    /\ sessions = 0 => Len(RowsToString(state)) - numrows(state)
                          <= (IF state.syntax = "NULL" THEN MaxEditText
                              ELSE MaxSyntaxText)
    /\ state.dirty <= MaxDirty

\* the history after an editing key took E to next
Edited(next) ==
    [g EXCEPT !.fresh = "no", !.mutated = @ \/ RowChars(next) # RowChars(E)]

\* a write through a row pointer that is out of bounds ends the process;
\* no exit hook runs
Fault ==
    /\ pc' = "crashed"
    /\ E' = Dead(E)
    /\ g' = [GhostInit EXCEPT !.saved = g.saved, !.term = g.term]

KeyEnter ==
    /\ Editing
    /\ IF \/ WritesRowOutOfBounds(E)
          \/ WritesBeforeRow(E) /\ E.rowoff + E.cy < numrows(E) THEN Fault
       ELSE LET next == InsertNewLine(E)
            IN /\ Fits(next)
               /\ E' = next
               /\ pc' = pc
               /\ g' = Edited(next)
    /\ UNCHANGED <<codec, disk, locals>>

KeyInsert ==
    /\ Editing
    /\ \E c \in TextKeys :
        IF WritesRowOutOfBounds(E) \/ WritesBeforeRow(E) THEN Fault
        ELSE LET next == InsertChar(E, c)
             IN /\ Fits(next)
                /\ E' = next
                /\ pc' = pc
                /\ g' = Edited(next)
    /\ UNCHANGED <<codec, disk, locals>>

KeyDelete ==
    /\ Editing
    /\ E.dirty < MaxDirty
    /\ \E c \in {BACKSPACE, CTRL_H, DEL_KEY} :
        IF \/ WritesRowOutOfBounds(E)
           \/ WritesBeforeRow(E) /\ E.rowoff + E.cy < numrows(E) THEN Fault
        ELSE LET next == DeleteChar(E)
             IN /\ \A i \in 1..numrows(next) : next.row[i].idx <= MaxIdx
                /\ E' = next
                /\ pc' = pc
                /\ g' = Edited(next)
    /\ UNCHANGED <<codec, disk, locals>>

KeyIgnored ==
    /\ Editing
    /\ \E c \in {CTRL_C, CTRL_L, ESC} :
        /\ E' = E
        /\ g' = [g EXCEPT !.fresh = "no"]
    /\ UNCHANGED <<codec, disk, locals, pc>>

KeyPage ==
    /\ Editing
    /\ \E c \in {PAGE_UP, PAGE_DOWN} :
        /\ E' = PageKey(E, c)
        /\ g' = [g EXCEPT !.fresh = "no"]
    /\ UNCHANGED <<codec, disk, locals, pc>>

\* the sizes an out-of-bounds read of a row's size yields when it does not fault
OobSizes == {0, 2}

KeyArrow ==
    /\ Editing
    /\ \E c \in {ARROW_UP, ARROW_DOWN, ARROW_LEFT, ARROW_RIGHT}, oob \in OobSizes :
        LET next == MoveCursor(E, c, oob)
        IN IF ReadsRowOutOfBounds(E, c, oob) THEN
               \/ Fault
               \/ /\ numrows(E) > 0
                  /\ next.rowoff + next.cy >= 0 - MaxAbove
                  /\ E' = next
                  /\ pc' = pc
                  /\ g' = [g EXCEPT !.fresh = "no"]
           ELSE
               /\ next.coloff >= E.coloff \/ next.coloff >= 0 - MaxBefore
               /\ E' = next
               /\ pc' = pc
               /\ g' = [g EXCEPT !.fresh = "no"]
    /\ UNCHANGED <<codec, disk, locals>>

KeyCtrlQ ==
    /\ Editing
    /\ LET out == CtrlQ(E)
       IN IF out.exits THEN
              /\ pc' = "exited"
              /\ E' = Dead(E)
              /\ g' = [GhostInit EXCEPT !.saved = g.saved, !.qwarn = g.qwarn,
                                        !.exit_dirty = E.dirty,
                                        !.term = Exit(g.term)]
          ELSE
              /\ pc' = pc
              /\ E' = out.state
              /\ g' = [g EXCEPT !.fresh = "no", !.qwarn = Append(@, E.quit_times)]
    /\ UNCHANGED <<codec, disk, locals>>

KeyCtrlS ==
    /\ Editing
    /\ \E iv \in SaveIvs, io \in SaveIo :
        LET out == Save(E, file, iv, io)
        IN /\ E' = out.state
           /\ file' = out.file
           /\ g' = IF out.ret = 0
                   THEN [g EXCEPT !.fresh = "no", !.mutated = FALSE, !.qwarn = <<>>,
                                  !.saved = [has |-> TRUE, rows |-> RowChars(E),
                                             text |-> RowsToString(E),
                                             pw |-> E.password]]
                   ELSE [g EXCEPT !.fresh = "no",
                                  !.saved = IF out.file = file THEN @ ELSE NoSave]
    /\ UNCHANGED <<codec, argv, sessions, locals, pc>>

\* SIGWINCH: the handler runs between two steps of the process
Sigwinch ==
    /\ Live
    /\ \E t \in TERMINALS :
        /\ <<t[1] - 2, t[2]>> # <<E.screenrows, E.screencols>>
        /\ E' = HandleWindowChangeSignal(E, t[1], t[2])
    /\ UNCHANGED <<codec, disk, locals, pc, g>>

\* exit(1): read fails in ReadKey, or GetWindowSize fails in the
\* UpdateWindowSize of the SIGWINCH handler
IoExit ==
    /\ Live
    /\ pc' = "exited"
    /\ E' = Dead(E)
    /\ g' = [GhostInit EXCEPT !.saved = g.saved, !.term = Exit(g.term)]
    /\ password' = <<>>
    /\ confirm_password' = <<>>
    /\ UNCHANGED <<codec, disk>>

\* the editor is started again on the same file, in a terminal that is
\* set as the shell sets it
Restart ==
    /\ pc \in {"exited", "crashed"}
    /\ sessions < MaxSessions
    /\ sessions' = sessions + 1
    /\ pc' = "main"
    /\ E' = Dead(E)
    /\ password' = <<>>
    /\ confirm_password' = <<>>
    /\ g' = [GhostInit EXCEPT !.saved = g.saved]
    /\ UNCHANGED <<codec, argv, file>>

CrOff ==
    [pc |-> "off", plaintext |-> <<>>, key |-> <<>>, dkey |-> <<>>,
     iv |-> <<>>, ciphertext |-> <<>>, enc_status |-> "none",
     dec_status |-> "none", dec_plaintext |-> <<>>,
     path |-> NoFile, algorithm |-> "kDefaultNone", correct |-> FALSE,
     dec |-> DefaultCryptoState]

\* the files found on disk when the editor is first started
InitialFiles(filename) ==
    IF GetCryptoAlgorithmFromFilename(filename) = "kDefaultNone"
    THEN {NoFile}
    ELSE {NoFile}

Init ==
    /\ host_le = TRUE
    /\ cr = CrOff
    /\ pc = "main"
    /\ argv \in FILENAMES
    /\ file \in InitialFiles(argv)
    /\ \E t \in TERMINALS : E = Init_(t[1], t[2])
    /\ password = <<>>
    /\ confirm_password = <<>>
    /\ sessions = 1
    /\ g = GhostInit

Next ==
    \/ HandleEncryption
    \/ NewShowEnterPassword \/ NewTypingEnterPassword \/ NewEnterPasswordCompleted
    \/ NewTypingConfirmPassword \/ NewConfirmPasswordNeedsCheck
    \/ NewShowRetryConfirmPassword
    \/ ExistingShowEnterPassword \/ ExistingTyping
    \/ ExistingEnterPasswordNeedsCheck \/ ExistingShowRetryPassword
    \/ MainOpen
    \/ KeyEnter \/ KeyInsert \/ KeyDelete \/ KeyIgnored \/ KeyPage \/ KeyArrow
    \/ KeyCtrlQ \/ KeyCtrlS
    \/ Sigwinch
    \/ IoExit
    \/ Restart

vars == <<host_le, cr, E, pc, argv, file, password, confirm_password, sessions, g>>

Spec == Init /\ [][Next]_vars

(* -------------------------- the editing harness ------------------------ *)

\* the plain files the editing harness is started on: none, and one of two
\* lines, the first with a TAB
EDITFILES == {NoFile, FileOf(Bytes(<<TAB, 97, LF, 98, LF>>))}

\* main on a plain file: sessions = 0 marks the harness
InitEdit ==
    /\ host_le = TRUE
    /\ cr = CrOff
    /\ pc = "main"
    /\ argv = <<"f", ".txt">>
    /\ file \in EDITFILES
    /\ \E t \in TERMINALS : E = Init_(t[1], t[2])
    /\ password = <<>>
    /\ confirm_password = <<>>
    /\ sessions = 0
    /\ g = GhostInit

\* the editing loop up to Ctrl-Q
NextEdit ==
    \/ HandleEncryption
    \/ MainOpen
    \/ KeyEnter \/ KeyInsert \/ KeyDelete \/ KeyIgnored \/ KeyPage \/ KeyArrow
    \/ KeyCtrlS
    \/ Sigwinch

SpecEdit == InitEdit /\ [][NextEdit]_vars

(* --------------------------- the find harness -------------------------- *)

\* keys and window changes that follow Ctrl-F before ESC or ENTER
MaxFindKeys == 2

FindKey(c) == [k |-> "key", c |-> c, p |-> FALSE, rows |-> 0, cols |-> 0]

\* what arrives while Find runs: query characters, a deletion, an arrow in
\* each direction and a change to the smallest window
FINDEVENTS ==
    {FindKey(c) : c \in {97, 98, BACKSPACE, ARROW_DOWN, ARROW_UP}}
        \cup {[k |-> "winch", c |-> KEY_NULL, p |-> FALSE, rows |-> 3, cols |-> 1]}

FindBodies == SeqsUpTo(FINDEVENTS, MaxFindKeys)

\* the plain files the find harness is started on: none, and one of two
\* rows that both hold a 'b', the first after a TAB
FINDFILES == {NoFile, FileOf(Bytes(<<TAB, 97, 98, LF, 98, LF>>))}

\* the Ctrl-F case of ProcessKeyPressUnlocked: Find runs until ESC or ENTER
KeyCtrlF ==
    /\ Editing
    /\ \E body \in FindBodies, c \in {ESC, ENTER} :
        LET f == Find(E, body)
        IN /\ E' = FindEvent(f, FindKey(c)).state
           /\ g' = [g EXCEPT !.fresh = "no",
                             !.find = [exit |-> c, query |-> f.query,
                                       last_match |-> f.last_match]]
    /\ UNCHANGED <<codec, disk, locals, pc>>

InitFind ==
    /\ host_le = TRUE
    /\ cr = CrOff
    /\ pc = "main"
    /\ argv = <<"f", ".txt">>
    /\ file \in FINDFILES
    /\ \E t \in TERMINALS : E = Init_(t[1], t[2])
    /\ password = <<>>
    /\ confirm_password = <<>>
    /\ sessions = 0
    /\ g = GhostInit

NextFind == HandleEncryption \/ MainOpen \/ KeyArrow \/ KeyCtrlF

SpecFind == InitFind /\ [][NextFind]_vars

(* --------------------------- the start harness ------------------------- *)

(* --------------------------- the render harness ------------------------ *)

\* the rows as they are in memory now
Memory == InsertRowMemory(E, g.mut.at, g.mut.s, g.mut.k)

\* the cursor is in the file or on the line after it, right of column 0
InWindow(state) ==
    /\ 0 <= state.rowoff /\ 0 <= state.cy /\ 0 <= state.coloff /\ 0 <= state.cx
    /\ state.rowoff + state.cy <= numrows(state)

\* the loop of main: RefreshScreen, then ProcessKeyPress reads ENTER and
\* InsertNewLine calls InsertRow
InsertNewLineBegin ==
    /\ Editing
    /\ InWindow(E)
    /\ Fits(InsertNewLine(E))
    /\ pc' = "InsertRow"
    /\ g' = [g EXCEPT !.fresh = "no",
                      !.mut = [k |-> 0, at |-> InsertNewLineRow(E).at,
                               s |-> InsertNewLineRow(E).s],
                      !.frame = [k |-> 0, torn |-> FALSE]]
    /\ UNCHANGED <<codec, disk, locals, E>>

InsertRowStep ==
    /\ pc = "InsertRow"
    /\ g.mut.k < InsertRowSteps
    /\ g' = [g EXCEPT !.mut.k = @ + 1]
    /\ UNCHANGED <<codec, disk, locals, E, pc>>

\* dirty++ of InsertRow and the rest of InsertNewLine
InsertNewLineEnd ==
    /\ pc = "InsertRow"
    /\ g.mut.k = InsertRowSteps
    /\ pc' = "edit"
    /\ E' = InsertNewLine(E)
    /\ g' = [g EXCEPT !.mut = GhostInit.mut,
                      !.mutated = @ \/ RowChars(InsertNewLine(E)) # RowChars(E)]
    /\ UNCHANGED <<codec, disk, locals>>

\* SIGWINCH in the editing loop or inside InsertRow: the handler updates
\* the size and renders what is in memory (inside InsertRow the terminal
\* reports the size it had)
SigwinchRender ==
    /\ pc \in {"edit", "InsertRow"}
    /\ InWindow(E)
    /\ \E t \in TERMINALS :
        /\ pc = "InsertRow" => <<t[1] - 2, t[2]>> = <<E.screenrows, E.screencols>>
        /\ LET next == HandleWindowChangeSignal(E, t[1], t[2])
               drawn == RefreshScreen(next, Memory)
               after == InsertNewLine(next)
           IN /\ pc = "InsertRow" => next = E
              /\ E' = next
              /\ g' = [g EXCEPT !.frame =
                          [k |-> g.mut.k,
                           torn |-> /\ drawn # RefreshScreen(next, InsertRowMemory(next, 0, <<>>, 0))
                                    /\ drawn # RefreshScreen(after, InsertRowMemory(after, 0, <<>>, 0))]]
    /\ UNCHANGED <<codec, disk, locals, pc>>

\* main on a plain file
InitRender ==
    /\ host_le = TRUE
    /\ cr = CrOff
    /\ pc = "main"
    /\ argv = <<"f", ".txt">>
    /\ file \in EDITFILES
    /\ \E t \in TERMINALS : E = Init_(t[1], t[2])
    /\ password = <<>>
    /\ confirm_password = <<>>
    /\ sessions = 0
    /\ g = GhostInit

NextRender ==
    \/ HandleEncryption \/ MainOpen \/ KeyArrow
    \/ InsertNewLineBegin \/ InsertRowStep \/ InsertNewLineEnd
    \/ SigwinchRender

SpecRender == InitRender /\ [][NextRender]_vars

(* --------------------------- the syntax harness ------------------------ *)

\* the C files the syntax harness is started on: none, "a", and "a" after
\* a line that opens a comment
SYNTAXFILES ==
    {NoFile, FileOf(Bytes(<<97, LF>>)), FileOf(Bytes(<<47, 42, LF, 97, LF>>))}

\* main on a C file
InitSyntax ==
    /\ host_le = TRUE
    /\ cr = CrOff
    /\ pc = "main"
    /\ argv = <<"f", ".c">>
    /\ file \in SYNTAXFILES
    /\ \E t \in TERMINALS : E = Init_(t[1], t[2])
    /\ password = <<>>
    /\ confirm_password = <<>>
    /\ sessions = 0
    /\ g = GhostInit

\* the editing loop with the keys that add rows and bytes
NextSyntax ==
    \/ HandleEncryption \/ MainOpen
    \/ KeyArrow \/ KeyEnter \/ KeyInsert

SpecSyntax == InitSyntax /\ [][NextSyntax]_vars

\* the filenames the start harness is run on: no part, the last part, a
\* middle part and the first part of the name is ".aes256cbc"
STARTNAMES ==
    {<<"f", ".txt">>, <<"f", aes256cbc>>, <<"f", aes256cbc, ".bak">>, <<aes256cbc, "f">>}

\* what is found under the name: nothing, or the container of "a" made
\* with the password "a"
STARTFILES ==
    {NoFile} \cup {FileOf(Encrypt(<<97>>, <<97>>, iv, "kAES256CBC").ciphertext) : iv \in SaveIvs}

InitStart ==
    /\ host_le = TRUE
    /\ cr = CrOff
    /\ pc = "main"
    /\ argv \in STARTNAMES
    /\ file \in STARTFILES
    /\ \E t \in TERMINALS : E = Init_(t[1], t[2])
    /\ password = <<>>
    /\ confirm_password = <<>>
    /\ sessions = 1
    /\ \E tty \in BOOLEAN : g = [GhostInit EXCEPT !.term.isatty = tty]

\* main up to the return of HandleEncryption
NextStart ==
    \/ HandleEncryption
    \/ NewShowEnterPassword \/ NewTypingEnterPassword \/ NewEnterPasswordCompleted
    \/ NewTypingConfirmPassword \/ NewConfirmPasswordNeedsCheck
    \/ NewShowRetryConfirmPassword
    \/ ExistingShowEnterPassword \/ ExistingTyping
    \/ ExistingEnterPasswordNeedsCheck \/ ExistingShowRetryPassword
    \/ IoExit

SpecStart == InitStart /\ [][NextStart]_vars

(* --------------------------- the codec harness ------------------------- *)

\* bytes of the harness plaintexts: a letter and two bytes that look like
\* PKCS#7 padding
TextBytes == {1, 16, 97}

PatternByte(i) == IF i % 3 = 0 THEN 1 ELSE IF i % 3 = 1 THEN 97 ELSE 16

PLAINTEXTS ==
    SeqsUpTo(TextBytes, 2) \cup {[i \in 1..n |-> PatternByte(i)] : n \in 3..MaxPlain}

\* the bytes a password is typed from
PwBytes == {97, 98}

KEYS == SeqsUpTo(PwBytes, MaxPw)

\* three ivs: 00 01 .. 0F of the tests, the same with FF for its last byte,
\* and one whose bytes are all 0xFF
IVS ==
    {[i \in 1..kHeaderIvSize |-> i - 1],
     [i \in 1..kHeaderIvSize |-> IF i = kHeaderIvSize THEN 255 ELSE i - 1],
     [i \in 1..kHeaderIvSize |-> 255]}

\* the editor is not running while the codec is exercised
EditorOff ==
    /\ E = Init_(3, 1)
    /\ pc = "off"
    /\ argv = <<>>
    /\ file = NoFile
    /\ password = <<>>
    /\ confirm_password = <<>>
    /\ sessions = 0
    /\ g = GhostInit

editor == <<E, pc, argv, file, password, confirm_password, sessions, g>>

CrInit ==
    /\ EditorOff
    /\ host_le \in BOOLEAN
    /\ cr \in [pc : {"in"}, plaintext : PLAINTEXTS, key : KEYS, dkey : KEYS,
               iv : IVS, ciphertext : {<<>>}, enc_status : {"none"},
               dec_status : {"none"}, dec_plaintext : {<<>>},
               path : {NoFile}, algorithm : {"kDefaultNone"},
               correct : {FALSE}, dec : {DefaultCryptoState}]

\* Encrypt(plaintext, key, iv, kAES256CBC)
CrEncrypt ==
    /\ cr.pc = "in"
    /\ LET e == Encrypt(cr.plaintext, cr.key, cr.iv, "kAES256CBC")
       IN cr' = [cr EXCEPT !.pc = "encrypted", !.ciphertext = e.ciphertext,
                           !.enc_status = e.status]
    /\ UNCHANGED <<host_le, editor>>

\* Decrypt(ciphertext, dkey, kAES256CBC) of what Encrypt returned
CrDecrypt ==
    /\ cr.pc = "encrypted"
    /\ LET d == Decrypt(cr.ciphertext, cr.dkey, "kAES256CBC")
       IN cr' = [cr EXCEPT !.pc = "decrypted", !.dec_status = d.status,
                           !.dec_plaintext = d.plaintext]
    /\ UNCHANGED <<host_le, editor>>

\* what is found at the path IsKeyCorrect is given: no file, the 9 bytes
\* "malformed" of the tests, 32 bytes that are no container (all zero, all
\* 'a'), what Encrypt returned, or its first n bytes
malformed == <<109, 97, 108, 102, 111, 114, 109, 101, 100>>

CUTS == {0, 31, 32, 40}

ALGORITHMS == {"kDefaultNone", "kAES256CBC"}

PATHS(ciphertext) ==
    {NoFile, FileOf(Bytes(malformed)), FileOf(Bytes(Fill(kHeaderSize, 0))),
     FileOf(Bytes(Fill(kHeaderSize, 97))), FileOf(ciphertext)}
        \cup {FileOf(SubSeq(ciphertext, 1, n)) : n \in {m \in CUTS : m <= Len(ciphertext)}}

\* the file at the path is written (or removed)
CrStore ==
    /\ cr.pc = "encrypted"
    /\ \E f \in PATHS(cr.ciphertext) : cr' = [cr EXCEPT !.pc = "stored", !.path = f]
    /\ UNCHANGED <<host_le, editor>>

\* IsKeyCorrect(dkey, path, algorithm)
CrIsKeyCorrect ==
    /\ cr.pc = "stored"
    /\ \E algorithm \in ALGORITHMS :
          cr' = [cr EXCEPT !.pc = "checked", !.algorithm = algorithm,
                           !.correct = IsKeyCorrect(cr.dkey, cr.path, algorithm)]
    /\ UNCHANGED <<host_le, editor>>

\* Decrypt(input, dkey, algorithm), the input being the bytes at the path
CrDecryptInput ==
    /\ cr.pc = "stored"
    /\ cr.path.exists
    /\ \E algorithm \in ALGORITHMS :
          cr' = [cr EXCEPT !.pc = "decoded", !.algorithm = algorithm,
                           !.dec = Decrypt(cr.path.data, cr.dkey, algorithm)]
    /\ UNCHANGED <<host_le, editor>>

CrNext == CrEncrypt \/ CrDecrypt \/ CrStore \/ CrIsKeyCorrect \/ CrDecryptInput


SpecCrypto == CrInit /\ [][CrNext]_vars

(* ------------------------------ properties ----------------------------- *)

\* C1: for every plaintext (the empty one too), every non-empty password and
\* every 16-byte iv, decrypting what Encrypt returned with the same password
\* reports OK and gives back the plaintext.
C1_RoundTrip ==
    (cr.pc = "decrypted" /\ cr.key # <<>> /\ cr.dkey = cr.key)
        => (StatusOk(cr.dec_status) /\ cr.dec_plaintext = cr.plaintext)

C1_Witness ==
    /\ cr.pc = "decrypted" /\ cr.key # <<>> /\ cr.dkey = cr.key
    /\ Len(cr.plaintext) = kStateSize + 1
    /\ cr.iv[kHeaderIvSize] # 0
    /\ ~host_le
    /\ cr.dec_plaintext = cr.plaintext

HasCipherSuffix(filename) ==
    filename # <<>> /\ filename[Len(filename)] = aes256cbc

\* C2: for a filename with the .aes256cbc suffix, whatever was typed in the
\* password flow, the file a successful Save wrote is the encrypted container
\* of the serialized rows and not that serialization itself.
C2_SaveWritesContainer ==
    (HasCipherSuffix(argv) /\ g.saved.has)
        => /\ file.data # Bytes(g.saved.text)
           /\ \E iv \in SaveIvs :
                LET e == Encrypt(g.saved.text, g.saved.pw, iv, "kAES256CBC")
                IN StatusOk(e.status) /\ file.data = e.ciphertext

\* C3: when a password P was committed by the new-file flow and the typed
\* rows were saved, a fresh editor that is given P by the existing-file flow
\* and opens the file holds rows whose chars are the saved rows' chars.
C3_SaveOpenRoundTrip ==
    (pc = "edit" /\ sessions > 1 /\ g.fresh = "ok" /\ g.saved.has
        /\ g.saved.pw # <<>> /\ E.password = g.saved.pw)
        => RowChars(E) = g.saved.rows

WrongKeyDecrypted ==
    /\ cr.pc = "decrypted"
    /\ cr.key # <<>> /\ cr.dkey # <<>> /\ cr.dkey # cr.key

\* C4 as stated: for every plaintext, decrypting with another non-empty
\* password than the one that encrypted reports the error InvalidKey.
C4_WrongKeyAnyPlaintext ==
    WrongKeyDecrypted => cr.dec_status = "kInvalidKey"

\* C4: for every non-empty plaintext, decrypting with another non-empty
\* password than the one that encrypted reports the error InvalidKey (not OK).
C4_WrongKey ==
    (WrongKeyDecrypted /\ cr.plaintext # <<>>)
        => (~StatusOk(cr.dec_status) /\ cr.dec_status = "kInvalidKey")

C4_Witness ==
    /\ WrongKeyDecrypted
    /\ Len(cr.plaintext) = kStateSize
    /\ cr.dec_status = "kInvalidKey"

\* a step of the new-file flow, of the existing-file flow (a resize is none)
NewFlowStep ==
    /\ pc = "new_file" /\ pc' # "exited"
    /\ E'.new_file_password_state # E.new_file_password_state
ExistingFlowStep ==
    /\ pc = "existing_file" /\ pc' # "exited"
    /\ E'.existing_file_password_state # E.existing_file_password_state

\* C5: the new-file flow returns only from ConfirmPasswordNeedsCheck and only
\* when the confirm entry equals the first entry, and state.password then is
\* that entry; when the entries differ the machine goes to
\* ShowRetryConfirmPassword and from there to TypingConfirmPassword with an
\* empty entry_password, and nothing is assigned to state.password.  (The
\* exit(1) of a failed read or window-size query is not a step of the flow.)
C5_NewFlowReturns ==
    [][ /\ (pc = "new_file" /\ pc' = "open")
            => /\ E.new_file_password_state = "kConfirmPasswordNeedsCheck"
               /\ g.entry2 = g.entry1
               /\ E'.password = g.entry1
        /\ (pc = "new_file" /\ pc' = "new_file") => E'.password = E.password
        /\ (AtNew("kConfirmPasswordNeedsCheck") /\ g.entry2 # g.entry1
                /\ (NewFlowStep \/ pc' \notin {pc, "exited"}))
            => /\ pc' = "new_file"
               /\ E'.new_file_password_state = "kShowRetryConfirmPassword"
        /\ (AtNew("kShowRetryConfirmPassword") /\ NewFlowStep)
            => /\ E'.new_file_password_state = "kTypingConfirmPassword"
               /\ E'.entry_password = <<>>
      ]_vars

C5_Witness ==
    /\ pc = "open"
    /\ E.unlock_state = "kNewFile"
    /\ Len(E.password) = MaxPw
    /\ E.password = g.entry1 /\ g.entry2 = g.entry1

\* C6: the existing-file flow returns only when IsKeyCorrect holds of the
\* entry ENTER completed, and state.password then is that entry; when it does
\* not hold the machine goes to ShowRetryPassword and from there to Typing
\* with an empty entry_password, nothing is assigned to state.password, and
\* no step of the flow asks for a confirmation.  (The exit(1) of a failed
\* read or window-size query is not a step of the flow.)
C6_ExistingFlowReturns ==
    [][ /\ (pc = "existing_file" /\ pc' = "open")
            => /\ E.existing_file_password_state = "kEnterPasswordNeedsCheck"
               /\ IsKeyCorrect(g.entry1, file, E.crypto_algorithm)
               /\ E'.password = g.entry1
        /\ (pc = "existing_file" /\ pc' = "existing_file")
            => /\ E'.password = E.password
               /\ E'.new_file_password_state = E.new_file_password_state
               /\ confirm_password' = confirm_password
        /\ (AtExisting("kEnterPasswordNeedsCheck")
                /\ ~IsKeyCorrect(g.entry1, file, E.crypto_algorithm)
                /\ (ExistingFlowStep \/ pc' \notin {pc, "exited"}))
            => /\ pc' = "existing_file"
               /\ E'.existing_file_password_state = "kShowRetryPassword"
        /\ (AtExisting("kShowRetryPassword") /\ ExistingFlowStep)
            => /\ E'.existing_file_password_state = "kTyping"
               /\ E'.entry_password = <<>>
      ]_vars

C6_Witness ==
    /\ pc = "open"
    /\ sessions > 1
    /\ E.crypto_algorithm = "kAES256CBC" /\ E.unlock_state = "kUnlocked"
    /\ E.password # <<>> /\ E.password = g.entry1
    /\ IsKeyCorrect(g.entry1, file, E.crypto_algorithm)

TypingPassword == InFlow /\ IsTyping(E)

\* C7: while a password machine is in a typing state, row 0 is indelible_msg
\* followed by one '*' for each character of entry_password, entry_password
\* is the characters typed and not deleted, in order, and no other row holds
\* anything that was typed.
C7_PromptThenStars ==
    TypingPassword
        => /\ numrows(E) = 1
           /\ E.row[1].chars = E.indelible_msg \o Fill(Len(E.entry_password), STAR)
           /\ E.entry_password = g.typed

\* C8: in a password typing state BACKSPACE, CTRL_H and DEL_KEY leave the
\* first |indelible_msg| bytes of row 0 as they are, and with the cursor at
\* the end of the prompt they leave the rows and entry_password unchanged,
\* on every screen width.
C8_PromptIndelible ==
    TypingPassword
        => \A c \in {BACKSPACE, CTRL_H, DEL_KEY} :
            LET next == ProcessKeyPressPasswordMode(E, c).state
                n == Len(E.indelible_msg)
            IN /\ numrows(next) >= 1
               /\ Len(next.row[1].chars) >= Min(n, Len(E.row[1].chars))
               /\ \A i \in 1..Min(n, Len(E.row[1].chars)) :
                     next.row[1].chars[i] = E.row[1].chars[i]
               /\ E.coloff + E.cx = n
                     => /\ RowChars(next) = RowChars(E)
                        /\ next.entry_password = E.entry_password

\* a key was typed and deleted again: the cursor is back at the prompt's end
C8_Witness ==
    /\ TypingPassword
    /\ E.screencols = 18
    /\ E.indelible_msg = enter_password
    /\ E.coloff + E.cx = Len(E.indelible_msg)
    /\ E.entry_password = <<>>
    /\ E.dirty > 2 * Len(E.indelible_msg) + 1

\* C9: whenever Ctrl-Q ends the editor with dirty > 0, three Ctrl-Q presses
\* came before it that showed quit_times 3, 2 and 1 and did not exit, with no
\* Save since the first of them.
C9_DirtyQuitWarnsThrice ==
    (pc = "exited" /\ g.exit_dirty > 0) => g.qwarn = <<3, 2, 1>>

\* C10: in the editing loop dirty is positive exactly when the rows changed
\* since the last successful Open or Save (so it is 0 right after either), a
\* Save that succeeds sets it to 0 and a Save that fails leaves it unchanged.
C10_DirtyCountsMutations ==
    pc = "edit"
        => /\ (E.dirty > 0) <=> g.mutated
           /\ \A iv \in SaveIvs, io \in SaveIo :
                LET out == Save(E, file, iv, io)
                IN out.state.dirty = (IF out.ret = 0 THEN 0 ELSE E.dirty)

\* C11: in the editing loop, after any keys (arrows, PAGE_UP, PAGE_DOWN,
\* ENTER, BACKSPACE, typed characters) on a screen of positive size, the
\* cursor is on a row of the file or just past the last one, and at no
\* negative column: rowoff + cy <= numrows and coloff + cx >= 0.
C11_CursorInFile ==
    (pc = "edit" /\ E.screenrows > 0 /\ E.screencols > 0)
        => /\ E.rowoff + E.cy <= numrows(E)
           /\ E.coloff + E.cx >= 0

\* every row's highlight vector is as long as its render, which is no
\* shorter than its chars
RowsOk(state) ==
    \A i \in 1..numrows(state) :
        /\ Len(state.row[i].hl) = state.row[i].rsize
        /\ state.row[i].rsize >= state.row[i].size

\* strings and characters the row operations are applied with
ROWSTRINGS == {<<>>, <<TAB>>, <<97, TAB, 98>>}
ROWCHARS == {97, TAB}

\* C12: after InsertRow, RowInsertChar, RowAppendString, RowDeleteChar, the
\* split of InsertNewLine and the join of DeleteChar, applied to any state of
\* the editing loop, every row has hl of length rsize and rsize >= size.
C12_HlMatchesRender ==
    pc = "edit"
        => /\ RowsOk(E)
           /\ \A at \in 0..numrows(E), str \in ROWSTRINGS : RowsOk(InsertRow(E, at, str))
           /\ \A r \in 0..(numrows(E) - 1) :
                /\ \A at \in 0..(RowAt(E, r).size + 1) :
                      /\ \A c \in ROWCHARS : RowsOk(RowInsertChar(E, r, at, c))
                      /\ RowsOk(RowDeleteChar(E, r, at))
                /\ \A str \in ROWSTRINGS : RowsOk(RowAppendString(E, r, str))
           /\ (~WritesRowOutOfBounds(E) /\ ~WritesBeforeRow(E))
                => RowsOk(InsertNewLine(E)) /\ RowsOk(DeleteChar(E))

\* a row with a TAB, whose render is longer than its chars, after an edit
C12_Witness ==
    /\ pc = "edit"
    /\ g.mutated
    /\ numrows(E) = MaxEditRows
    /\ \E i \in 1..numrows(E) : E.row[i].rsize > E.row[i].size

\* chars, size and idx of every row
RowIdentity(state) ==
    [i \in 1..numrows(state) |->
        <<state.row[i].chars, state.row[i].size, state.row[i].idx>>]

\* C13: for the rows of any state of the editing loop, every at in
\* 0..numrows and every string s, InsertRow(at, s) then DeleteRow(at) gives
\* back the rows: as many, each with the chars, size and idx it had.
C13_InsertDeleteRow ==
    pc = "edit"
        => \A at \in 0..numrows(E), str \in ROWSTRINGS :
              RowIdentity(DeleteRow(InsertRow(E, at, str), at)) = RowIdentity(E)

\* where row i (from 1) starts in the serialization: the sum of size + 1
\* over the rows before it
RECURSIVE RowOffset(_, _)
RowOffset(state, i) ==
    IF i <= 1 THEN 0
    ELSE RowOffset(state, i - 1) + state.row[i - 1].size + 1

\* C14: RowsToString is, row after row, the size bytes of the row's chars and
\* one '\n', the last row included; its length is the sum of size + 1 over the
\* rows (0 and empty for no rows); a Save with no password that succeeds
\* leaves exactly these bytes in the file.
C14_RowsToStringAndSave ==
    pc = "edit"
        => LET buf == RowsToString(E)
               n == numrows(E)
           IN /\ Len(buf) = RowOffset(E, n + 1)
              /\ n = 0 => buf = <<>>
              /\ \A i \in 1..n :
                    /\ \A k \in 1..E.row[i].size :
                          buf[RowOffset(E, i) + k] = E.row[i].chars[k]
                    /\ buf[RowOffset(E, i) + E.row[i].size + 1] = LF
              /\ E.password = <<>>
                    => \A iv \in SaveIvs :
                          LET out == Save(E, file, iv, "ok")
                          IN /\ out.ret = 0
                             /\ out.file.exists
                             /\ Vals(out.file.data) = buf
                             /\ \A k \in 1..Len(buf) : ~out.file.data[k].sym

\* three rows, not all empty, were saved and are still in the buffer
C14_Witness ==
    /\ pc = "edit"
    /\ numrows(E) = MaxEditRows
    /\ Len(RowsToString(E)) > numrows(E)
    /\ g.saved.has /\ g.saved.rows = RowChars(E)
    /\ Vals(file.data) = g.saved.text

\* the lines of the files Open is applied to: empty, a letter, a letter and
\* a carriage return, a TAB and a letter
OPENLINES == {<<>>, <<97>>, <<97, 13>>, <<TAB, 98>>}
MaxOpenLines == 3

\* the file content of the lines, each terminated by '\n'
RECURSIVE Terminated(_, _)
Terminated(lines, j) ==
    IF j > Len(lines) THEN <<>>
    ELSE lines[j] \o <<LF>> \o Terminated(lines, j + 1)

\* C15: Open, in the State main hands it for a plain file, of a file of n
\* lines each terminated by '\n' leaves n rows, row i with the chars, the size
\* and the idx of line i and, when the line has no TAB, with the line as its
\* render, and dirty = 0; Open of a missing file leaves no rows and dirty = 0
\* and the process goes on to the editing loop.
C15_OpenLoadsLines ==
    /\ (pc = "open" /\ E.password = <<>>)
        => /\ \A lines \in SeqsUpTo(OPENLINES, MaxOpenLines) :
                LET out == Open(E, argv, FileOf(Bytes(Terminated(lines, 1))))
                IN /\ out.ret = 0
                   /\ numrows(out.state) = Len(lines)
                   /\ out.state.dirty = 0
                   /\ \A i \in 1..Len(lines) :
                         LET row == out.state.row[i]
                         IN /\ row.chars = lines[i]
                            /\ row.size = Len(lines[i])
                            /\ row.idx = i - 1
                            /\ TAB \notin Range(lines[i])
                                  => row.render = lines[i] /\ row.rsize = Len(lines[i])
           /\ LET out == Open(E, argv, NoFile)
              IN numrows(out.state) = 0 /\ out.state.dirty = 0
    /\ (g.fresh = "failed" /\ ~file.exists)
        => (pc = "edit" /\ numrows(E) = 0 /\ E.dirty = 0)
    /\ (g.fresh = "ok" /\ E.password = <<>>)
        => (pc = "edit" /\ Vals(file.data) = RowsToString(E) /\ E.dirty = 0)

\* the two-line file was opened
C15_Witness ==
    /\ pc = "edit"
    /\ g.fresh = "ok"
    /\ file.exists
    /\ numrows(E) = 2 /\ E.row[2].chars = <<98>> /\ E.row[2].idx = 1
    /\ E.dirty = 0

FileRow(state) == state.rowoff + state.cy
FileCol(state) == state.coloff + state.cx

\* s without the element at index i (from 1)
Without(s, i) == SubSeq(s, 1, i - 1) \o SubSeq(s, i + 1, Len(s))

\* C16: in the editing loop InsertChar(c) with the cursor at file row
\* r < numrows and file column col <= size(r) puts c at col of row r, leaves
\* the other rows and numrows as they are, and moves the file column by 1
\* on the same file row.
C16_InsertCharAtCursor ==
    (pc = "edit" /\ ~IsTyping(E)
        /\ 0 <= FileRow(E) /\ FileRow(E) < numrows(E)
        /\ 0 <= FileCol(E) /\ FileCol(E) <= RowAt(E, FileRow(E)).size)
        => \A c \in ROWCHARS \cup {LF} :
            LET next == InsertChar(E, c)
                r == FileRow(E) + 1
                old == E.row[r].chars
                col == FileCol(E)
            IN /\ numrows(next) = numrows(E)
               /\ next.row[r].chars =
                     SubSeq(old, 1, col) \o <<c>> \o SubSeq(old, col + 1, Len(old))
               /\ next.row[r].size = E.row[r].size + 1
               /\ \A i \in 1..numrows(E) : i # r => next.row[i] = E.row[i]
               /\ FileCol(next) = col + 1
               /\ FileRow(next) = FileRow(E)

\* a line feed was put in front of the letter of the only row
C16_Witness ==
    /\ pc = "edit"
    /\ numrows(E) = 1
    /\ E.row[1].chars = <<LF, 97>>
    /\ FileRow(E) = 0 /\ FileCol(E) = 1

\* C17: ENTER with the cursor at file row r <= numrows and file column col
\* adds exactly one row: for r < numrows rows r and r + 1 are the two parts
\* of the old row r cut at min(col, size), for r = numrows an empty row is
\* appended; the other rows keep content and order; the cursor ends at file
\* row r + 1, file column 0.
C17_EnterSplitsRow ==
    (pc = "edit" /\ 0 <= FileRow(E) /\ FileRow(E) <= numrows(E) /\ 0 <= FileCol(E))
        => LET next == InsertNewLine(E)
               r == FileRow(E) + 1
               n == numrows(E)
           IN /\ numrows(next) = n + 1
              /\ \A i \in 1..(r - 1) : next.row[i].chars = E.row[i].chars
              /\ \A i \in (r + 1)..n : next.row[i + 1].chars = E.row[i].chars
              /\ r = n + 1 => next.row[r].chars = <<>>
              /\ r <= n =>
                    LET old == E.row[r].chars
                        cut == Min(Max(FileCol(E), 0), E.row[r].size)
                    IN /\ next.row[r].chars = SubSeq(old, 1, cut)
                       /\ next.row[r + 1].chars = SubSeq(old, cut + 1, Len(old))
                       /\ next.row[r].chars \o next.row[r + 1].chars = old
              /\ \A i \in 1..(n + 1) : next.row[i].size = Len(next.row[i].chars)
              /\ FileRow(next) = FileRow(E) + 1
              /\ FileCol(next) = 0

\* the saved row of two letters was cut in the middle by one ENTER
C17_Witness ==
    /\ pc = "edit"
    /\ g.saved.has /\ g.saved.rows = <<(<<97, 97>>)>>
    /\ RowChars(E) = <<(<<97>>), (<<97>>)>>
    /\ FileRow(E) = 1 /\ FileCol(E) = 0
    /\ E.dirty = 1

\* C18: BACKSPACE with the cursor on row r at file column col: for col > 0
\* the byte at col - 1 of row r is removed, and nothing else, and the file
\* column is col - 1; for col = 0 and r > 0 row r - 1 becomes old(r - 1)
\* followed by old(r), row r is removed and the cursor is at file row r - 1,
\* file column |old(r - 1)|; for col = 0 and r = 0, and past the last row,
\* rows, cursor and dirty are unchanged. No other row changes.
C18_BackspaceAtCursor ==
    (pc = "edit" /\ ~IsTyping(E) /\ 0 <= FileRow(E) /\ 0 <= FileCol(E))
        => LET next == DeleteChar(E)
               r == FileRow(E) + 1
               n == numrows(E)
               col == FileCol(E)
           IN IF r > n \/ (col = 0 /\ r = 1) THEN
                  /\ RowChars(next) = RowChars(E)
                  /\ <<next.cx, next.cy, next.rowoff, next.coloff>>
                        = <<E.cx, E.cy, E.rowoff, E.coloff>>
                  /\ next.dirty = E.dirty
              ELSE IF col > 0 THEN
                  /\ numrows(next) = n
                  /\ col <= Len(E.row[r].chars)
                  /\ next.row[r].chars = Without(E.row[r].chars, col)
                  /\ \A i \in 1..n : i # r => next.row[i].chars = E.row[i].chars
                  /\ FileCol(next) = col - 1
                  /\ FileRow(next) = FileRow(E)
              ELSE
                  /\ numrows(next) = n - 1
                  /\ next.row[r - 1].chars = E.row[r - 1].chars \o E.row[r].chars
                  /\ \A i \in 1..(r - 2) : next.row[i].chars = E.row[i].chars
                  /\ \A i \in (r + 1)..n : next.row[i - 1].chars = E.row[i].chars
                  /\ FileRow(next) = FileRow(E) - 1
                  /\ FileCol(next) = Len(E.row[r - 1].chars)

\* C19: IsKeyCorrect(k, path, algo) is true exactly when the file at the path
\* can be read and Decrypt of its contents with k and algo reports OK; it is
\* false for a missing file, for a file shorter than 32 bytes, for an empty
\* password and for the algorithm "none".
C19_IsKeyCorrect ==
    cr.pc = "checked"
        => /\ cr.correct <=>
                  (/\ cr.path.exists
                   /\ StatusOk(Decrypt(cr.path.data, cr.dkey, cr.algorithm).status))
           /\ (\/ ~cr.path.exists
               \/ Len(cr.path.data) < 32
               \/ cr.dkey = <<>>
               \/ cr.algorithm = "kDefaultNone") => ~cr.correct

\* the container of one block, cut to 31 bytes, is checked with the password
\* that made it
C19_Witness ==
    /\ cr.pc = "checked"
    /\ cr.algorithm = "kAES256CBC"
    /\ cr.key # <<>> /\ cr.dkey = cr.key
    /\ cr.plaintext = <<97>>
    /\ cr.path = FileOf(SubSeq(cr.ciphertext, 1, 31))
    /\ ~cr.correct

\* C20: Decrypt (AES-256-CBC) of an input shorter than 32 bytes returns the
\* error InvalidDataSize for every password, the empty one too, in a state
\* that holds no key, no iv, no size and no plaintext; for an input of 32
\* bytes or more and an empty password it returns InvalidKeySize.
C20_DecryptShortInput ==
    (cr.pc = "decoded" /\ cr.algorithm = "kAES256CBC")
        => /\ Len(cr.path.data) < 32
                => cr.dec = CreateCryptoStateWithStatus("kInvalidDataSize")
           /\ (Len(cr.path.data) >= 32 /\ cr.dkey = <<>>)
                => cr.dec.status = "kInvalidKeySize"

\* the 9 bytes "malformed" are decrypted with the empty password
C20_Witness ==
    /\ cr.pc = "decoded"
    /\ cr.algorithm = "kAES256CBC"
    /\ cr.path.data = Bytes(malformed)
    /\ cr.dkey = <<>>
    /\ cr.dec.status = "kInvalidDataSize"

\* C21: Encrypt (AES-256-CBC) with an empty password returns a status that
\* is not OK, of kind InvalidKeySize, and an empty ciphertext, for every
\* plaintext and iv.
C21_EncryptEmptyKey ==
    (cr.pc \notin {"off", "in"} /\ cr.key = <<>>)
        => /\ ~StatusOk(cr.enc_status)
           /\ cr.enc_status = "kInvalidKeySize"
           /\ cr.ciphertext = <<>>

\* the longest plaintext was given to Encrypt with the empty password
C21_Witness ==
    /\ cr.pc = "encrypted"
    /\ cr.key = <<>>
    /\ Len(cr.plaintext) = MaxPlain
    /\ cr.iv[1] = 255
    /\ cr.enc_status = "kInvalidKeySize"

\* C22: HandleEncryption selects AES-256-CBC and enters a password flow
\* exactly when the filename ends with ".aes256cbc"; for every other filename,
\* one that has more characters after ".aes256cbc" too, crypto_algorithm stays
\* none, no password flow runs and the state is left as it was.
C22_SuffixSelectsCipher ==
    [][ pc = "main"
            => IF HasCipherSuffix(argv)
               THEN /\ E'.crypto_algorithm = "kAES256CBC"
                    /\ pc' \in {"new_file", "existing_file"}
               ELSE /\ E' = E
                    /\ E'.crypto_algorithm = "kDefaultNone"
                    /\ pc' = "open"
      ]_vars

\* the cursor and the viewport
Cursor(state) == <<state.cx, state.cy, state.rowoff, state.coloff>>

RowHl(state) == [i \in 1..numrows(state) |-> state.row[i].hl]

C24_IvInHeader ==
    (cr.pc = "encrypted" /\ cr.key # <<>>)
        => /\ Len(cr.ciphertext) >= 32
           /\ \A i \in 1..kHeaderIvSize : ByteVal(cr.ciphertext[16 + i]) = cr.iv[i]
           /\ \A iv \in IVS \ {cr.iv} :
                Encrypt(cr.plaintext, cr.key, iv, "kAES256CBC").ciphertext # cr.ciphertext

\* sizes the size field is exercised with, next to the size of the plaintext
\* at hand: one, two and three significant bytes
SIZES == {0, 1, 255, 256, 258, 65535, 66051, Huge - 1}

\* C25: on a little-endian host byte i (from 0) of the size field of n is
\* (n >> (56 - 8*i)) & 0xFF, on a big-endian host the order is the reverse,
\* and on either host GetPlaintextSizeFromCiphertext of the field is n; the
\* eight bytes after the magic number and the version in what Encrypt
\* returns are that field of the plaintext's size.
C25_SizeField ==
    /\ cr.pc = "encrypted" =>
       \A n \in SIZES \cup {Len(cr.plaintext)} :
         LET header == ConstructPlaintextSizeHeaderForCiphertext(n)
             msb == [i \in 1..8 |-> ShiftRightBytes(n, 8 - i) % 256]
         IN /\ Len(header) = 8
            /\ host_le => header = msb
            /\ ~host_le => header = Reverse(msb)
            /\ GetPlaintextSizeFromCiphertext(Bytes(header)) = n
    /\ (cr.pc = "encrypted" /\ cr.key # <<>>)
         => /\ Vals(SubSeq(cr.ciphertext, 9, 16))
                 = ConstructPlaintextSizeHeaderForCiphertext(Len(cr.plaintext))
            /\ GetPlaintextSizeFromCiphertext(SubSeq(cr.ciphertext, 9, Len(cr.ciphertext)))
                 = Len(cr.plaintext)

C25_Witness ==
    /\ cr.pc = "encrypted"
    /\ cr.key # <<>>
    /\ ~host_le
    /\ Len(cr.plaintext) = MaxPlain
    /\ Vals(SubSeq(cr.ciphertext, 9, 16)) = <<MaxPlain, 0, 0, 0, 0, 0, 0, 0>>

\* C26: once EnableRawMode has succeeded, the process that has exited (by
\* Ctrl-Q in the editing loop or at a password prompt, or by exit(1)) has
\* left the terminal with the attributes it had before raw mode was entered
\* and with rawmode cleared; while rawmode is set, EnableRawMode returns 0
\* and changes neither the saved attributes nor anything else.
C26_ExitRestoresTerminal ==
    /\ g.term.rawmode # 0 =>
         /\ g.term.attr = "raw"
         /\ g.term.orig_termios = "cooked"
         /\ g.term.hooks > 0
         /\ EnableRawMode(g.term) = [ret |-> 0, term |-> g.term]
         /\ Exit(g.term).attr = "cooked"
         /\ Exit(g.term).rawmode = 0
    /\ (pc = "exited" /\ g.term.isatty) =>
         /\ g.term.attr = "cooked"
         /\ g.term.rawmode = 0

C26_Witness ==
    /\ pc = "exited"
    /\ g.exit_dirty > 0
    /\ g.term = [TermInit EXCEPT !.orig_termios = "cooked"]

\* C27: every frame RefreshScreen has rendered, the one of the SIGWINCH
\* handler included, was rendered while no InsertRow was between its first
\* and its last step, and shows the rows as they are before or after the key.
C27_RenderReadsCompleteState == g.frame.k = 0 /\ ~g.frame.torn

\* C28: after any sequence of edits every row of the buffer has its own
\* position as idx: row[i].idx = i.
C28_IdxIsPosition ==
    pc = "edit" => \A i \in 1..numrows(E) : E.row[i].idx = i - 1

\* the size of the row under the cursor, 0 with no row there
SizeUnder(state) ==
    IF 0 <= FileRow(state) /\ FileRow(state) < numrows(state)
    THEN RowAt(state, FileRow(state)).size ELSE 0

\* C29 for one call: MoveCursor(key) on state
MoveCursorOk(state, key, oob) ==
    LET next == MoveCursor(state, key, oob)
        r == FileRow(state)
        c == FileCol(state)
    IN /\ FileCol(next) <= SizeUnder(next)
       /\ (key = ARROW_UP /\ r > 0) => FileRow(next) = r - 1
       /\ (key = ARROW_DOWN /\ r + 1 < numrows(state)) => FileRow(next) = r + 1
       /\ (key \in {ARROW_UP, ARROW_DOWN} /\ c <= SizeUnder(next)) => FileCol(next) = c
       /\ (key = ARROW_LEFT /\ c = 0 /\ r > 0 /\ r - 1 < numrows(state))
            => /\ FileRow(next) = r - 1
               /\ FileCol(next) = RowAt(state, r - 1).size
       /\ (key = ARROW_RIGHT /\ r < numrows(state) /\ c = SizeUnder(state))
            => /\ FileRow(next) = r + 1
               /\ FileCol(next) = 0
       /\ next.row = state.row
       /\ next.dirty = state.dirty

\* C29: after MoveCursor the file column is at most the size of the row
\* under the cursor (0 past the last row); ARROW_UP and ARROW_DOWN move the
\* file row by one when there is a row that way and keep the file column
\* when the row they arrive at is long enough; ARROW_LEFT at file column 0
\* of row r > 0 arrives at the end of row r - 1, ARROW_RIGHT at the end of
\* row r at column 0 of row r + 1; rows, numrows and dirty stay.
C29_MoveCursor ==
    pc = "edit"
        => \A key \in {ARROW_LEFT, ARROW_RIGHT, ARROW_UP, ARROW_DOWN}, oob \in OobSizes :
              MoveCursorOk(E, key, oob)

\* the strings rows are inserted with: a byte, and the start of a comment
SYNSTRINGS == {<<97>>, <<47, 42>>}

\* hl of the row at index i as UpdateSyntax writes it now
FreshHl(state, i) == UpdateSyntax(state, i).row[i + 1].hl

\* C30: with a syntax selected, when InsertRow(at, s) leaves the new row
\* with an open comment (its hl_oc was 0) and there is a row after it, that
\* row is highlighted again: its hl is what UpdateSyntax gives it.
C30_InsertRowPropagates ==
    (pc = "edit" /\ E.syntax # "NULL")
        => \A at \in 0..numrows(E), s \in SYNSTRINGS :
              LET next == InsertRow(E, at, s)
              IN (RowHasOpenComment(RowAt(next, at)) # 0 /\ at + 1 < numrows(next))
                    => RowAt(next, at + 1).hl = FreshHl(next, at + 1)

\* the rows C31 is looked at on: an empty row, "a", "/*", and "/*/"
OCSTRINGS == {<<>>, <<97>>, <<47, 42>>, <<47, 42, 47>>}

\* in_comment when the loop of UpdateSyntax leaves the row at index at
ParserEndsInComment(state, at) ==
    HlScan(RowAt(state, at),
           HlVars(SkipSpace(RowAt(state, at).render, 0), TRUE, 0,
                  StartsInComment(state, RowAt(state, at)),
                  Fill(RowAt(state, at).rsize, HL_NORMAL), "no")).in_comment

\* C31: with a syntax selected, the row InsertRow(at, s) has highlighted has
\* hl_oc set exactly when the parser was inside a multi-line comment at the
\* end of the row, and the row after it starts its scan in a comment
\* exactly when that hl_oc is set.
C31_HlOcIsParserState ==
    (pc = "edit" /\ E.syntax # "NULL")
        => \A at \in 0..numrows(E), s \in OCSTRINGS :
              LET next == InsertRow(E, at, s)
              IN /\ (RowAt(next, at).hl_oc = 1) <=> ParserEndsInComment(next, at)
                 /\ at + 1 < numrows(next)
                       => (StartsInComment(next, RowAt(next, at + 1))
                              <=> RowAt(next, at).hl_oc = 1)

\* an iv of 17 bytes: 00 01 .. 0F 10
LongIv == [i \in 1..(kHeaderIvSize + 1) |-> i - 1]

\* C32: Encrypt with a non-empty password and an iv that is not 16 bytes
\* long returns a status that is not OK, of kind InvalidIvSize, and no
\* ciphertext.
C32_EncryptBadIv ==
    (cr.pc = "encrypted" /\ cr.key # <<>>)
        => /\ ~StatusOk(Encrypt(cr.plaintext, cr.key, LongIv, "kAES256CBC").status)
           /\ Encrypt(cr.plaintext, cr.key, LongIv, "kAES256CBC").status = "kInvalidIvSize"
           /\ Encrypt(cr.plaintext, cr.key, LongIv, "kAES256CBC").ciphertext = <<>>

\* the bytes of s that are neither a TAB nor a space, in order
Solid(s) == SelectSeq(s, LAMBDA c : c # TAB /\ c # SPACE)

\* the number of TABs in s
Tabs(s) == Len(SelectSeq(s, LAMBDA c : c = TAB))

\* C33: in the render UpdateRow makes of a row, the byte after the expansion
\* of each TAB is at a column that is a multiple of 8, every TAB has become
\* at least one space, the other bytes are copied in order, and
\* rsize <= size + 7 * (number of TABs).
C33_TabStops ==
    pc = "edit"
        => \A i \in 0..(numrows(E) - 1) :
              LET row == RowAt(UpdateRow(E, i), i)
              IN /\ \A j \in 1..Len(row.chars) :
                        row.chars[j] = TAB
                            => /\ Len(RenderFrom(SubSeq(row.chars, 1, j), 1, <<>>)) % 8 = 0
                               /\ Len(RenderFrom(SubSeq(row.chars, 1, j), 1, <<>>))
                                     > Len(RenderFrom(SubSeq(row.chars, 1, j - 1), 1, <<>>))
                 /\ Solid(row.render) = Solid(row.chars)
                 /\ row.rsize <= Len(row.chars) + 7 * Tabs(row.chars)

\* C34: when EnableRawMode fails (stdin is no terminal) the process exits
\* before a password prompt is shown, the file is opened or a key is read:
\* main is never past EnableRawMode with the terminal not in raw mode.
C34_InitFailureExits ==
    (EnableRawMode(g.term).ret # 0)
        => pc \notin {"new_file", "existing_file", "open", "edit"}

\* the transitions of the new-file password machine to another state
NewFileSteps ==
    {<<"kShowEnterPassword", "kTypingEnterPassword">>,
     <<"kTypingEnterPassword", "kEnterPasswordCompleted">>,
     <<"kEnterPasswordCompleted", "kTypingConfirmPassword">>,
     <<"kTypingConfirmPassword", "kConfirmPasswordNeedsCheck">>,
     <<"kConfirmPasswordNeedsCheck", "kShowRetryConfirmPassword">>,
     <<"kShowRetryConfirmPassword", "kTypingConfirmPassword">>}

\* a step of the process while the new-file flow runs, and a key of the
\* editing loop after it
NewFileMachineStep ==
    /\ (pc = "new_file" /\ pc' = "new_file")
          => /\ E'.new_file_password_state # E.new_file_password_state
                   => <<E.new_file_password_state, E'.new_file_password_state>>
                          \in NewFileSteps
             /\ E'.new_file_password_state \in
                   {"kEnterPasswordCompleted", "kConfirmPasswordNeedsCheck"}
                   => \/ E' = E
                      \/ /\ ProcessKeyPressPasswordMode(E, ENTER).ret
                         /\ E' = [E EXCEPT !.new_file_password_state =
                                               E'.new_file_password_state]
                      \/ \E t \in TERMINALS :
                             E' = HandleWindowChangeSignal(E, t[1], t[2])
             /\ E'.new_file_password_state = E.new_file_password_state
                   => \/ /\ E.new_file_password_state \in
                               {"kTypingEnterPassword", "kTypingConfirmPassword"}
                         /\ \E c \in PasswordModeKeys \ {ENTER} :
                                /\ ~ProcessKeyPressPasswordMode(E, c).ret
                                /\ E' = ProcessKeyPressPasswordMode(E, c).state
                      \/ \E t \in TERMINALS :
                             E' = HandleWindowChangeSignal(E, t[1], t[2])
    /\ (pc = "new_file" /\ pc' = "open")
          => /\ E.new_file_password_state = "kConfirmPasswordNeedsCheck"
             /\ E'.new_file_password_state = "kConfirmPasswordNeedsCheck"
    /\ (pc = "edit" /\ pc' = "edit") => E'.entry_password = E.entry_password

\* C35: the new-file password machine takes only the transitions of
\* NewFileSteps, a typing state being left on ENTER and on ENTER only, and
\* returns from ConfirmPasswordNeedsCheck; ShowConfirmPassword is never
\* entered; once a flow has returned neither machine is in a typing state
\* and the keys of the editing loop leave entry_password alone.
C35_NewFileMachine ==
    /\ [][NewFileMachineStep]_vars
    /\ [](E.new_file_password_state # "kShowConfirmPassword")
    /\ [](pc \in {"open", "edit"}
            => /\ E.new_file_password_state \notin
                     {"kTypingEnterPassword", "kTypingConfirmPassword"}
               /\ E.existing_file_password_state # "kTyping")

\* the new-file flow has returned with a password and 'a' was typed into the
\* buffer after it
C35_Witness ==
    /\ pc = "edit"
    /\ E.unlock_state = "kNewFile"
    /\ E.new_file_password_state = "kConfirmPasswordNeedsCheck"
    /\ E.password # <<>>
    /\ numrows(E) > 0
    /\ RowAt(E, 0).chars = <<97>>
    /\ E.entry_password = <<>>

\* UpdateSyntax on the rows from index i to the last one, in order
RECURSIVE HighlightFrom(_, _)
HighlightFrom(state, i) ==
    IF i >= numrows(state) THEN state
    ELSE HighlightFrom(UpdateSyntax(state, i), i + 1)

\* the buffer highlighted from scratch: no row has a highlight or an open
\* comment yet, and the rows are highlighted from row 0 to the last row
HighlightAll(state) ==
    HighlightFrom(
        [state EXCEPT !.row = [j \in 1..Len(state.row) |->
                                  [state.row[j] EXCEPT !.hl = <<>>, !.hl_oc = 0,
                                                       !.idx = j - 1]]], 0)

\* C36: with a syntax selected, after the keys of the editing loop every
\* row's hl and hl_oc are what highlighting the whole buffer from row 0 to
\* the last row from scratch gives.
C36_IncrementalIsFull ==
    (pc = "edit" /\ E.syntax # "NULL")
        => \A i \in 0..(numrows(E) - 1) :
              /\ RowAt(E, i).hl = RowAt(HighlightAll(E), i).hl
              /\ RowAt(E, i).hl_oc = RowAt(HighlightAll(E), i).hl_oc

\* the turn of the loop of UpdateSyntax at the bytes c0 = *p and
\* c1 = *(p + 1) writes hl outside [0, rsize): the memset of a "//" comment
\* has the length size - i, which is negative when i, an offset in render,
\* is beyond size; the two-byte writes of "*/", "/*" and of a backslash in
\* a string reach hl[i + 1]
HlWritesOutOfBounds(row, v, c0, c1) ==
    IF c0 = 0 THEN FALSE
    ELSE IF v.prev_sep /\ c0 = 47 /\ c1 = 47
    THEN row.size - v.i < 0 \/ v.i + (row.size - v.i) > row.rsize
    ELSE IF v.in_comment THEN c0 = 42 /\ c1 = 47 /\ v.i + 1 >= row.rsize
    ELSE IF c0 = 47 /\ c1 = 42 THEN v.i + 1 >= row.rsize
    ELSE IF v.in_string # 0 THEN c0 = 92 /\ v.i + 1 >= row.rsize
    ELSE v.i >= row.rsize

\* the loop of UpdateSyntax from v on reads render outside [0, rsize] or
\* writes hl outside [0, rsize)
RECURSIVE ScanOutOfBounds(_, _)
ScanOutOfBounds(row, v) ==
    IF v.i > row.rsize THEN TRUE
    ELSE IF v.ended # "no" THEN FALSE
    ELSE \/ HlWritesOutOfBounds(row, v, CharAt(row.render, v.i),
                                CharAt(row.render, v.i + 1))
         \/ ScanOutOfBounds(row, HlStep(row, v))

\* the rows C37 is looked at on: "a", "//", a TAB and "//", a string that
\* ends with a backslash, "/*"
BOUNDSTRINGS == {<<97>>, <<47, 47>>, <<TAB, 47, 47>>, <<34, 92>>, <<47, 42>>}

\* C37: with a syntax selected, UpdateSyntax on a row writes hl at indices
\* in [0, rsize) only and reads render at indices in [0, rsize] only.
C37_UpdateSyntaxInBounds ==
    (pc = "edit" /\ E.syntax # "NULL")
        => \A s \in BOUNDSTRINGS :
              LET row == RowAt(InsertRow(E, numrows(E), s), numrows(E))
              IN ~ScanOutOfBounds(row,
                     HlVars(SkipSpace(row.render, 0), TRUE, 0,
                            StartsInComment(E, row), Fill(row.rsize, HL_NORMAL), "no"))

\* C38: in the editing loop, with screenrows and screencols positive, the
\* cursor and the viewport stay in range after every key and every window
\* change: 0 <= cx <= screencols - 1, 0 <= cy <= screenrows - 1,
\* coloff >= 0 and rowoff >= 0.
C38_CursorInRange ==
    (pc = "edit" /\ E.screenrows > 0 /\ E.screencols > 0)
        => /\ 0 <= E.cx /\ E.cx <= E.screencols - 1
           /\ 0 <= E.cy /\ E.cy <= E.screenrows - 1
           /\ E.coloff >= 0
           /\ E.rowoff >= 0

\* the keys a password prompt reads and drops
DroppedKeys ==
    {CTRL_S, CTRL_C, CTRL_F, CTRL_L, ESC, PAGE_UP, PAGE_DOWN,
     ARROW_UP, ARROW_DOWN, ARROW_LEFT, ARROW_RIGHT}

C40_BackspaceErases ==
    (TypingPassword /\ E.entry_password # <<>>)
        => LET next == ProcessKeyPressPasswordMode(E, BACKSPACE).state
           IN /\ next.entry_password = PopBack(E.entry_password)
              /\ numrows(next) = 1
              /\ RowAt(E, 0).chars[RowAt(E, 0).size] = STAR
              /\ RowAt(next, 0).chars = PopBack(RowAt(E, 0).chars)

====
